---- MODULE Spec2Model ----
(***************************************************************************)
(* Zen-Slice: the GameCanvas component (session state, per-frame tick,     *)
(* collision detector, stepper, camera effect) and generateSenseiFeedback  *)
(* as a state machine.                                                     *)
(*                                                                         *)
(* Number representation (all JavaScript numbers are kept as integers):    *)
(*   time      : 1/60 s ("tu"); a tick with timeScale k advances k tu      *)
(*   lengths   : 1/100 pixel                                               *)
(*   speeds    : 1/100 pixel per tu                                        *)
(*   opacity, scale, flash : 1/100                                         *)
(*   particle / text life and decay : 1/1000                               *)
(*   shake     : 1/1000000                                                 *)
(*   spawn timer, millisecond windows : 1/3 ms (k tu = 50*k thirds of ms)  *)
(* Date.now() differences are kept as ages (now - timestamp), saturated    *)
(* where every comparison in the code has become constant.                 *)
(***************************************************************************)
EXTENDS Integers, Sequences, FiniteSets, TLC

\* ---------------------------------------------------------------- units
PX == 100
OPACITY_UNIT == 100
LIFE_UNIT == 1000
SHAKE_UNIT == 1000000

\* k tu expressed in thirds of a millisecond (k/60 s = 50k/3 ms)
Ms3(k) == 50 * k

Max(a, b) == IF a > b THEN a ELSE b
Min(a, b) == IF a < b THEN a ELSE b
Abs(a) == IF a < 0 THEN -a ELSE a

\* ---------------------------------------------------------------- program values
\* the sixteen fruit types differ only in the emoji drawn and the juice colour;
\* one stands for all of them
FRUIT_TYPES == {"APPLE"}
BOMB_TYPE == "BOMB"
FRUIT_RADIUS == 35
SLICE_LIFETIME == 250
COMBO_WINDOW == 400
DT_CLAMP == 6
BASELINE_HEIGHT == 1080
SHAKE_END == 1
BOMB_SHAKE == 45
COMBO_SHAKE_CAP == 15
FRUIT_SCORE == 10
COMBO_BONUS == 5
HARD_SCORE == 250
WIN_SCORE == 50
MIN_SLICE_DIST == 5
SPAWN_OFFSET == 50
REMOVE_MARGIN == 300

INITIAL_DIFFICULTY ==
  [gravity |-> 15, minSpeed |-> 1400, maxSpeed |-> 1900, spawnRate |-> 1400, bombChance |-> 10]

HARD_DIFFICULTY ==
  [gravity |-> 22, minSpeed |-> 1800, maxSpeed |-> 2400, spawnRate |-> 900, bombChance |-> 20]

SHAKE_SNAP == SHAKE_UNIT \div 2

\* ---------------------------------------------------------------- bounds
\* wall-clock stall (tu) that a single frame may take beyond the dt clamp
MaxStall == 24
\* the hand is shown only while fewer fruits than this were sliced in the session
MaxFruits == 2
\* ... and while the pending-inclusive combo value is below this
MaxCombo == 3
\* ... and while fewer bombs than this were hit in the session
MaxBombs == 2
\* ... and while the trail holds fewer points than this
MaxTrail == 2
\* ... and, while playing, only with an unsliced entity that is, or after one more
\* frame will be, within this many pixels (vertically) of the area the pointer moves in
HandReach == 35

\* a burst leaves a stuck droplet only while fewer fruits than this were sliced
MaxStuck == 1
\* frames React may let pass before it renders a dispatched update
MaxLag == 4
\* calls of AudioService followed
MaxCalls == 4

\* viewport (canvas.width / canvas.height), pixels
Width == 1920
Height == BASELINE_HEIGHT

\* elapsed wall time between two frames, tu
Elapsed == {DT_CLAMP, MaxStall}

\* ---------------------------------------------------------------- state
VARIABLES
  gameState,          \* useState: 'LOADING' | 'MENU' | 'PLAYING' | 'GAMEOVER' (committed)
  currentCombo,       \* useState(0) (committed)
  finalStats,         \* useState<GameStats | null>
  gameOverQuote,      \* useState(''): "" or the pool the quote was drawn from
  hudStats,           \* useState({score, fruits, maxCombo})
  cameraError,        \* useState(false)
  videoStarted,       \* useState(false)
  pendingUpdates,     \* state updates dispatched outside an event handler, not yet rendered
  camera,             \* position of the camera-setup effect (startCamera / initializeVision)
  handLandmarkerRef,  \* TRUE once the landmarker is stored
  scoreRef,
  livesRef,
  spawnTimerRef,      \* thirds of ms
  entitiesRef,        \* sequence of entities (array order)
  particlesRef,       \* set of distinct particles (type, stuck, decay, life)
  floatingTextsRef,   \* set of distinct texts (text, life)
  trailRef,           \* sequence of [x, y, age]
  lastHandPosRef,     \* NoPos or [x, y]
  shakeIntensityRef,
  statsRef,           \* [score, fruitsSliced, bombsHit, maxCombo]
  sinceComboTimer,    \* now - comboTimerRef.current, tu, saturated at AgeSat
  framesPending,      \* frames run since React last had nothing left to render
  pc,                 \* position inside the renderFrame callback ("idle" between frames)
  dt,                 \* renderFrame's local dt, tu (0 between frames)
  requestRef,         \* animation-frame callbacks requested and not cancelled, the one
                      \* running included (requestRef.current is the id of the newest)
  stream,             \* the camera effect's local stream: "none" | "live" | "stopped"
  feedback,           \* one call of generateSenseiFeedback: [key, stats, pc, result, contacted]
  audio               \* module state of audioService.ts and the outcome of the last call

vars == <<gameState, currentCombo, finalStats, gameOverQuote, hudStats, cameraError,
          videoStarted, pendingUpdates, camera, handLandmarkerRef, scoreRef, livesRef,
          spawnTimerRef, entitiesRef, particlesRef, floatingTextsRef, trailRef,
          lastHandPosRef, shakeIntensityRef, statsRef, sinceComboTimer, framesPending,
          pc, dt, requestRef, stream, feedback, audio>>

NoPos == [x |-> -1, y |-> -1]
NoStats == [score |-> -1, fruitsSliced |-> -1, bombsHit |-> -1, maxCombo |-> -1]
ZeroStats == [score |-> 0, fruitsSliced |-> 0, bombsHit |-> 0, maxCombo |-> 0]
ZeroHud == [score |-> 0, fruits |-> 0, maxCombo |-> 0]
\* generateSenseiFeedback has not been called
NoFeedback ==
  [key |-> FALSE, stats |-> NoStats, pc |-> "idle", result |-> "", contacted |-> FALSE]

\* audioService.ts as loaded: no context, no gain node, no noise buffer; contexts and
\* buffers count the objects created so far, calls and inits the calls made
NoAudio ==
  [audioCtx |-> FALSE, masterGain |-> FALSE, noiseBuffer |-> FALSE, contexts |-> 0,
   buffers |-> 0, nodes |-> 0, calls |-> 0, inits |-> 0, op |-> "", outcome |-> ""]

\* ages at or beyond these behave alike in the window test they are used in
AgeSat == (3 * COMBO_WINDOW) \div 50
TrailAgeSat == (3 * SLICE_LIFETIME) \div 50
Age(a, el, sat) == Min(a + el, sat)

\* the mutable refs a frame works on, as one record
Refs ==
  [score |-> scoreRef, lives |-> livesRef, spawnTimer |-> spawnTimerRef,
   entities |-> entitiesRef, particles |-> particlesRef, texts |-> floatingTextsRef,
   trail |-> trailRef, lastHandPos |-> lastHandPosRef, shake |-> shakeIntensityRef,
   stats |-> statsRef, sinceCombo |-> sinceComboTimer, queue |-> pendingUpdates]

Store(r) ==
  /\ scoreRef' = r.score
  /\ livesRef' = r.lives
  /\ spawnTimerRef' = r.spawnTimer
  /\ entitiesRef' = r.entities
  /\ particlesRef' = r.particles
  /\ floatingTextsRef' = r.texts
  /\ trailRef' = r.trail
  /\ lastHandPosRef' = r.lastHandPos
  /\ shakeIntensityRef' = r.shake
  /\ statsRef' = r.stats
  /\ sinceComboTimer' = r.sinceCombo

\* the committed React state, as one record
Ui ==
  [gameState |-> gameState, currentCombo |-> currentCombo, finalStats |-> finalStats,
   gameOverQuote |-> gameOverQuote, hudStats |-> hudStats, cameraError |-> cameraError,
   videoStarted |-> videoStarted]

Commit(u) ==
  /\ gameState' = u.gameState
  /\ currentCombo' = u.currentCombo
  /\ finalStats' = u.finalStats
  /\ gameOverQuote' = u.gameOverQuote
  /\ hudStats' = u.hudStats
  /\ cameraError' = u.cameraError
  /\ videoStarted' = u.videoStarted

\* the component after its first render and its effects
InitCanvas ==
  /\ gameState = "LOADING"
  /\ currentCombo = 0
  /\ finalStats = NoStats
  /\ gameOverQuote = ""
  /\ hudStats = ZeroHud
  /\ cameraError = FALSE
  /\ videoStarted = FALSE
  /\ pendingUpdates = <<>>
  /\ camera = "acquiring"
  /\ handLandmarkerRef = FALSE
  /\ scoreRef = 0
  /\ livesRef = 1
  /\ spawnTimerRef = 0
  /\ entitiesRef = <<>>
  /\ particlesRef = {}
  /\ floatingTextsRef = {}
  /\ trailRef = <<>>
  /\ lastHandPosRef = NoPos
  /\ shakeIntensityRef = 0
  /\ statsRef = ZeroStats
  /\ sinceComboTimer = AgeSat
  /\ framesPending = 0
  /\ pc = "idle"
  /\ dt = 0
  /\ requestRef = 1
  /\ stream = "none"

Init == InitCanvas /\ feedback = NoFeedback /\ audio = NoAudio

\* ---------------------------------------------------------------- floating texts
spawnFloatingText(r, text) ==
  [r EXCEPT !.texts = @ \cup {[text |-> text, life |-> LIFE_UNIT]}]

\* ---------------------------------------------------------------- combo updater
\* the function passed to setCurrentCombo: React runs it either at dispatch (no update
\* pending on the component) or while rendering; rr = [r |-> refs, combo |-> new value]
ComboUpdater_flatBonus(r, prev) ==
  LET newCombo == prev + 1
      r1 == [r EXCEPT !.stats.maxCombo = Max(@, newCombo)]
      bonus == COMBO_BONUS
      r2 == [r1 EXCEPT !.score = @ + bonus,
                       !.stats.score = @ + bonus,
                       !.shake = Min(newCombo * 3, COMBO_SHAKE_CAP) * SHAKE_UNIT]
  IN  [r |-> IF newCombo > 1 THEN spawnFloatingText(r2, "COMBO") ELSE r1,
       combo |-> newCombo]

ComboUpdater(r, prev) ==
  LET newCombo == prev + 1
      r1 == [r EXCEPT !.stats.maxCombo = Max(@, newCombo)]
      bonus == newCombo * COMBO_BONUS
      r2 == [r1 EXCEPT !.score = @ + bonus,
                       !.stats.score = @ + bonus,
                       !.shake = Min(newCombo * 3, COMBO_SHAKE_CAP) * SHAKE_UNIT]
  IN  [r |-> IF newCombo > 1 THEN spawnFloatingText(r2, "COMBO") ELSE r1,
       combo |-> newCombo]

\* ---------------------------------------------------------------- render
\* one React render + commit: the pending updates are applied in dispatch order
RECURSIVE ApplyUpdates(_, _, _)
ApplyUpdates(q, u, r) ==
  IF q = <<>> THEN [u |-> u, r |-> r]
  ELSE LET h == Head(q)
           t == Tail(q)
       IN  CASE h.k = "gameState" -> ApplyUpdates(t, [u EXCEPT !.gameState = h.v], r)
             [] h.k = "finalStats" -> ApplyUpdates(t, [u EXCEPT !.finalStats = h.v], r)
             [] h.k = "gameOverQuote" -> ApplyUpdates(t, [u EXCEPT !.gameOverQuote = h.v], r)
             [] h.k = "hudStats" -> ApplyUpdates(t, [u EXCEPT !.hudStats = h.v], r)
             [] h.k = "cameraError" -> ApplyUpdates(t, [u EXCEPT !.cameraError = h.v], r)
             [] h.k = "videoStarted" -> ApplyUpdates(t, [u EXCEPT !.videoStarted = h.v], r)
             [] h.k = "combo" -> ApplyUpdates(t, [u EXCEPT !.currentCombo = h.v], r)
             [] h.k = "comboFn" ->
                  LET rr == ComboUpdater(r, u.currentCombo)
                  IN  ApplyUpdates(t, [u EXCEPT !.currentCombo = rr.combo], rr.r)

Upd(k, v) == [k |-> k, v |-> v]

\* renderFrame depends on [gameState, videoStarted]: when a render changes one of
\* them the frame-loop effect cancels the requested frame and requests a new one
Rescheduled(u) == u.gameState # gameState \/ u.videoStarted # videoStarted

\* cancelAnimationFrame(requestRef.current), requestAnimationFrame(renderFrame);
\* n = the callbacks requested and not cancelled
cancelFrame(n) == IF n > 0 THEN n - 1 ELSE 0
requestFrame(n) == n + 1

\* the frame-loop effect re-run without its cleanup
loopEffect_noCleanup(n) == requestFrame(n)

\* the frame-loop effect re-run: the cleanup of the previous run, then its body
loopEffect(n) == requestFrame(cancelFrame(n))

Render ==
  /\ pc = "idle"
  /\ UNCHANGED <<pc, dt>>
  /\ pendingUpdates # <<>>
  /\ LET res == ApplyUpdates(pendingUpdates, Ui, [Refs EXCEPT !.queue = <<>>])
     IN  /\ Commit(res.u)
         /\ Store(res.r)
         /\ pendingUpdates' = <<>>
         /\ requestRef' = IF Rescheduled(res.u) THEN loopEffect(requestRef) ELSE requestRef
  /\ framesPending' = 0
  /\ UNCHANGED <<camera, handLandmarkerRef, stream, feedback, audio>>

UNCHANGED_refs ==
  UNCHANGED <<scoreRef, livesRef, spawnTimerRef, entitiesRef, particlesRef,
              floatingTextsRef, trailRef, lastHandPosRef, shakeIntensityRef, statsRef,
              sinceComboTimer>>

UNCHANGED_ui ==
  UNCHANGED <<gameState, currentCombo, finalStats, gameOverQuote, hudStats, cameraError,
              videoStarted>>

\* ---------------------------------------------------------------- camera-setup effect
\* both getUserMedia attempts rejected: the catch block
GetUserMediaFail ==
  /\ pc = "idle"
  /\ UNCHANGED <<pc, dt>>
  /\ camera = "acquiring"
  /\ camera' = "failed"
  /\ pendingUpdates' = pendingUpdates \o <<Upd("cameraError", TRUE), Upd("gameState", "LOADING")>>
  /\ UNCHANGED <<handLandmarkerRef, framesPending, requestRef, stream, feedback, audio>>
  /\ UNCHANGED_refs /\ UNCHANGED_ui

\* a stream was obtained and attached to the video element
GetUserMediaOk ==
  /\ pc = "idle"
  /\ UNCHANGED <<pc, dt>>
  /\ camera = "acquiring"
  /\ camera' = "streaming"
  /\ stream' = "live"
  /\ UNCHANGED <<pendingUpdates, handLandmarkerRef, framesPending, requestRef, feedback, audio>>
  /\ UNCHANGED_refs /\ UNCHANGED_ui

\* video.onloadeddata: setVideoStarted(true); initializeVision() starts
LoadedData ==
  /\ pc = "idle"
  /\ UNCHANGED <<pc, dt>>
  /\ camera = "streaming"
  /\ camera' = "visionInit"
  /\ pendingUpdates' = Append(pendingUpdates, Upd("videoStarted", TRUE))
  /\ UNCHANGED <<handLandmarkerRef, framesPending, requestRef, stream, feedback, audio>>
  /\ UNCHANGED_refs /\ UNCHANGED_ui

\* initializeVision: the landmarker resolved
InitializeVisionOk ==
  /\ pc = "idle"
  /\ UNCHANGED <<pc, dt>>
  /\ camera = "visionInit"
  /\ camera' = "ready"
  /\ handLandmarkerRef' = TRUE
  /\ pendingUpdates' = Append(pendingUpdates, Upd("gameState", "MENU"))
  /\ UNCHANGED <<framesPending, requestRef, stream, feedback, audio>>
  /\ UNCHANGED_refs /\ UNCHANGED_ui

\* initializeVision: the landmarker rejected (logged only)
InitializeVisionFail ==
  /\ pc = "idle"
  /\ UNCHANGED <<pc, dt>>
  /\ camera = "visionInit"
  /\ camera' = "visionFailed"
  /\ UNCHANGED <<pendingUpdates, handLandmarkerRef, framesPending, requestRef, stream, feedback, audio>>
  /\ UNCHANGED_refs /\ UNCHANGED_ui

\* "Retry Access" (rendered while cameraError): the effect's cleanup stops the tracks
\* of its stream, if it has one, and cancels the requested frame; then the effect
\* re-runs startCamera, which starts with setCameraError(false); a click is rendered
\* synchronously
RetryAccess ==
  /\ pc = "idle"
  /\ UNCHANGED <<pc, dt>>
  /\ cameraError
  /\ LET res == ApplyUpdates(Append(pendingUpdates, Upd("cameraError", FALSE)), Ui,
                             [Refs EXCEPT !.queue = <<>>])
     IN  /\ Commit(res.u)
         /\ Store(res.r)
         /\ requestRef' = IF Rescheduled(res.u) THEN loopEffect(cancelFrame(requestRef))
                          ELSE cancelFrame(requestRef)
  /\ pendingUpdates' = <<>>
  /\ framesPending' = 0
  /\ camera' = "acquiring"
  /\ stream' = "none"
  /\ UNCHANGED <<handLandmarkerRef, feedback, audio>>

\* ---------------------------------------------------------------- startGame / endGame
startGameRefs_keepsEntities(r) ==
  [r EXCEPT !.score = 0,
            !.lives = 1,
            !.particles = {},
            !.texts = {},
            !.trail = <<>>,
            !.lastHandPos = NoPos,
            !.stats = ZeroStats,
            !.shake = 0]

startGameRefs(r) ==
  [r EXCEPT !.score = 0,
            !.lives = 1,
            !.entities = <<>>,
            !.particles = {},
            !.texts = {},
            !.trail = <<>>,
            !.lastHandPos = NoPos,
            !.stats = ZeroStats,
            !.shake = 0]

startGameUpdates ==
  <<Upd("hudStats", ZeroHud), Upd("gameState", "PLAYING"), Upd("finalStats", NoStats),
    Upd("gameOverQuote", "")>>

\* onClick of START TRAINING (rendered in MENU) and TRY AGAIN (rendered in GAMEOVER)
StartGame ==
  /\ pc = "idle"
  /\ UNCHANGED <<pc, dt>>
  /\ gameState \in {"MENU", "GAMEOVER"}
  /\ LET res == ApplyUpdates(pendingUpdates \o startGameUpdates, Ui,
                             [startGameRefs(Refs) EXCEPT !.queue = <<>>])
     IN  /\ Commit(res.u)
         /\ Store(res.r)
         /\ requestRef' = IF Rescheduled(res.u) THEN loopEffect(requestRef) ELSE requestRef
  /\ pendingUpdates' = <<>>
  /\ framesPending' = 0
  /\ UNCHANGED <<camera, handLandmarkerRef, stream, feedback, audio>>

endGameUpdates_toMenu(r) ==
  <<Upd("gameState", "MENU"), Upd("finalStats", r.stats),
    Upd("gameOverQuote", IF r.stats.score > WIN_SCORE THEN "WINNING" ELSE "LOSING")>>

endGameUpdates(r) ==
  <<Upd("gameState", "GAMEOVER"), Upd("finalStats", r.stats),
    Upd("gameOverQuote", IF r.stats.score > WIN_SCORE THEN "WINNING" ELSE "LOSING")>>

\* q ends with exactly the three updates u
EndsWith(q, u) ==
  LET n == Len(q)
  IN  /\ n >= 3
      /\ q[n - 2].k = "gameState" /\ q[n - 2].v = u[1].v
      /\ q[n - 1].k = "finalStats" /\ q[n - 1].v = u[2].v
      /\ q[n].k = "gameOverQuote" /\ q[n].v = u[3].v

\* a repeated endGame() whose three updates equal the three dispatched last
\* renders to the same state and is not queued again
endGame(r) ==
  IF EndsWith(r.queue, endGameUpdates(r)) THEN r
  ELSE [r EXCEPT !.queue = @ \o endGameUpdates(r)]

\* ---------------------------------------------------------------- arithmetic helpers
\* exact products beyond 31 bits: <<h, l1, l0>> stands for h*2^30 + l1*2^15 + l0
LIMB == 32768

BigMul(a, b) ==
  LET a1 == a \div LIMB
      a0 == a % LIMB
      b1 == b \div LIMB
      b0 == b % LIMB
      p00 == a0 * b0
      p01 == a0 * b1
      p10 == a1 * b0
      m == (p00 \div LIMB) + (p01 % LIMB) + (p10 % LIMB)
  IN  <<a1 * b1 + (p01 \div LIMB) + (p10 \div LIMB) + (m \div LIMB), m % LIMB, p00 % LIMB>>

BigAdd(x, y) ==
  LET s0 == x[3] + y[3]
      s1 == x[2] + y[2] + (s0 \div LIMB)
  IN  <<x[1] + y[1] + (s1 \div LIMB), s1 % LIMB, s0 % LIMB>>

BigLess(x, y) ==
  \/ x[1] < y[1]
  \/ x[1] = y[1] /\ x[2] < y[2]
  \/ x[1] = y[1] /\ x[2] = y[2] /\ x[3] < y[3]

\* floor of the square root
RECURSIVE IsqrtIn(_, _, _)
IsqrtIn(n, lo, hi) ==
  IF lo >= hi THEN lo
  ELSE LET mid == (lo + hi + 1) \div 2
       IN  IF mid * mid <= n THEN IsqrtIn(n, mid, hi) ELSE IsqrtIn(n, lo, mid - 1)

Isqrt(n) == IsqrtIn(n, 0, 46340)

\* truncating division (JavaScript numbers keep the sign)
DivT(a, b) == IF a < 0 THEN -((-a) \div b) ELSE a \div b

\* ---------------------------------------------------------------- difficulty
\* the hard tier from the threshold score on
Difficulty_inclusive(score) ==
  IF score >= HARD_SCORE THEN HARD_DIFFICULTY ELSE INITIAL_DIFFICULTY

Difficulty(score) == IF score > HARD_SCORE THEN HARD_DIFFICULTY ELSE INITIAL_DIFFICULTY

\* ---------------------------------------------------------------- spawnEntity
\* inputs standing for the Math.random() draws of spawnEntity
SpawnXs == {960 * PX}
TargetXs == {960 * PX}
FlightTimes == {200}
SpawnSpeeds(difficulty) == {difficulty.minSpeed}

SpawnChoices(difficulty) ==
  [type : FRUIT_TYPES \cup {BOMB_TYPE}, x : SpawnXs, targetX : TargetXs,
   flightTime : FlightTimes, speed : SpawnSpeeds(difficulty)]

BaseIds(entities) == {entities[i].id[1] : i \in 1..Len(entities)}

\* Math.random().toString(36).substr(2, 9): an id no live entity carries
FreshId(entities) ==
  <<CHOOSE n \in 1..(Len(entities) + 1) :
      /\ n \notin BaseIds(entities)
      /\ \A m \in 1..(n - 1) : m \in BaseIds(entities)>>

spawnEntity(r, width, height, c) ==
  LET y == (height + SPAWN_OFFSET) * PX
      vx == DivT(c.targetX - c.x, c.flightTime)
      vy == -((c.speed * height) \div BASELINE_HEIGHT)
      e == [id |-> FreshId(r.entities), type |-> c.type, x |-> c.x, y |-> y,
            vx |-> vx, vy |-> vy,
            radius |-> (FRUIT_RADIUS * PX * height) \div BASELINE_HEIGHT,
            isSliced |-> FALSE, isFragment |-> FALSE, sliceSide |-> 0,
            scale |-> OPACITY_UNIT, opacity |-> OPACITY_UNIT, flash |-> 0]
  IN  [r EXCEPT !.entities = Append(@, e)]

\* ---------------------------------------------------------------- createExplosion
FreeDecays == {20}
CoreParticle == [type |-> "CORE", stuck |-> FALSE, decay |-> 150, life |-> LIFE_UNIT]
StuckParticle == [type |-> "JUICE", stuck |-> TRUE, decay |-> 5, life |-> 2 * LIFE_UNIT]
FreeParticle(type, d) == [type |-> type, stuck |-> FALSE, decay |-> d, life |-> LIFE_UNIT]

\* the distinct particles one burst can contain (the 25 / 50 draws, multiplicity dropped)
JuiceBursts ==
  {S \in SUBSET ({StuckParticle} \cup {FreeParticle("JUICE", d) : d \in FreeDecays}) : S # {}}
SparkBursts ==
  {S \in SUBSET {FreeParticle("SPARK", d) : d \in FreeDecays} : S # {}}

Bursts == [juice : JuiceBursts, spark : SparkBursts]

createExplosion(r, isBomb, burst) ==
  [r EXCEPT !.particles = @ \cup (IF isBomb THEN burst.spark ELSE burst.juice)
                            \cup {CoreParticle}]

\* ---------------------------------------------------------------- detectHand
Points == { [x |-> 960 * PX, y |-> 88640], [x |-> 960 * PX, y |-> 100200] }

InViewport(p) == p.x >= 0 /\ p.x <= Width * PX /\ p.y >= 0 /\ p.y <= Height * PX

\* raw finger positions (already mapped to canvas pixels) the landmarker may report
RawInputs(last, points) ==
  IF last = NoPos THEN points
  ELSE {raw \in {[x |-> 2 * p.x - last.x, y |-> 2 * p.y - last.y] : p \in points} :
          InViewport(raw)}

\* hand = NoPos: result.landmarks is empty
\* without a hand the cached position is dropped whatever the trail holds
detectHand_alwaysClears(r, ready, hand) ==
  IF ~ready THEN r
  ELSE IF hand # NoPos
  THEN LET new == IF r.lastHandPos # NoPos
                  THEN [x |-> r.lastHandPos.x + DivT(hand.x - r.lastHandPos.x, 2),
                        y |-> r.lastHandPos.y + DivT(hand.y - r.lastHandPos.y, 2)]
                  ELSE hand
       IN  [r EXCEPT !.lastHandPos = new,
                     !.trail = Append(@, [x |-> new.x, y |-> new.y, age |-> 0])]
  ELSE [r EXCEPT !.lastHandPos = NoPos]

detectHand(r, ready, hand) ==
  IF ~ready THEN r
  ELSE IF hand # NoPos
  THEN LET new == IF r.lastHandPos # NoPos
                  THEN [x |-> r.lastHandPos.x + DivT(hand.x - r.lastHandPos.x, 2),
                        y |-> r.lastHandPos.y + DivT(hand.y - r.lastHandPos.y, 2)]
                  ELSE hand
       IN  [r EXCEPT !.lastHandPos = new,
                     !.trail = Append(@, [x |-> new.x, y |-> new.y, age |-> 0])]
  ELSE IF Len(r.trail) = 0 THEN [r EXCEPT !.lastHandPos = NoPos] ELSE r

\* ---------------------------------------------------------------- checkCollisions
\* distToSegment < entity.radius, with t = dot / l2 clamped to [0, 1]:
\* t = 0 gives p1, t = 1 gives p2, otherwise |w|^2 - dot^2 / l2 is the squared distance
SegmentHit_inclusive(p1, p2, e) ==
  LET dx == p2.x - p1.x
      dy == p2.y - p1.y
      l2 == dx * dx + dy * dy
      wx == e.x - p1.x
      wy == e.y - p1.y
      ux == e.x - p2.x
      uy == e.y - p2.y
      rad == e.radius
      dot == wx * dx + wy * dy
      \* farther than the radius from the segment's bounding box: no product is needed
      far == \/ e.x < Min(p1.x, p2.x) - rad
             \/ e.x > Max(p1.x, p2.x) + rad
             \/ e.y < Min(p1.y, p2.y) - rad
             \/ e.y > Max(p1.y, p2.y) + rad
  IN  /\ l2 # 0
      /\ ~far
      /\ IF dot <= 0 THEN wx * wx + wy * wy <= rad * rad
         ELSE IF dot >= l2 THEN ux * ux + uy * uy <= rad * rad
         ELSE ~BigLess(BigAdd(BigMul(rad * rad, l2), BigMul(dot, dot)),
                       BigMul(wx * wx + wy * wy, l2))

SegmentHit(p1, p2, e) ==
  LET dx == p2.x - p1.x
      dy == p2.y - p1.y
      l2 == dx * dx + dy * dy
      wx == e.x - p1.x
      wy == e.y - p1.y
      ux == e.x - p2.x
      uy == e.y - p2.y
      rad == e.radius
      dot == wx * dx + wy * dy
      \* farther than the radius from the segment's bounding box: no product is needed
      far == \/ e.x <= Min(p1.x, p2.x) - rad
             \/ e.x >= Max(p1.x, p2.x) + rad
             \/ e.y <= Min(p1.y, p2.y) - rad
             \/ e.y >= Max(p1.y, p2.y) + rad
  IN  /\ l2 # 0
      /\ ~far
      /\ IF dot <= 0 THEN wx * wx + wy * wy < rad * rad
         ELSE IF dot >= l2 THEN ux * ux + uy * uy < rad * rad
         ELSE BigLess(BigMul(wx * wx + wy * wy, l2),
                      BigAdd(BigMul(rad * rad, l2), BigMul(dot, dot)))

createFragment_unflagged(e, side, dx, dy, dist) ==
  [e EXCEPT !.id = Append(e.id, IF side = 1 THEN "-A" ELSE "-B"),
            !.isSliced = TRUE,
            !.sliceSide = side,
            !.vx = e.vx + DivT(dx, 5) + DivT(-dy * 150 * side, dist),
            !.vy = e.vy + DivT(dy, 5) + DivT(dx * 150 * side, dist),
            !.flash = OPACITY_UNIT]

createFragment(e, side, dx, dy, dist) ==
  [e EXCEPT !.id = Append(e.id, IF side = 1 THEN "-A" ELSE "-B"),
            !.isSliced = TRUE,
            !.isFragment = TRUE,
            !.sliceSide = side,
            !.vx = e.vx + DivT(dx, 5) + DivT(-dy * 150 * side, dist),
            !.vy = e.vy + DivT(dy, 5) + DivT(dx * 150 * side, dist),
            !.flash = OPACITY_UNIT]

\* setCurrentCombo(...) of the combo system; eager: React computes the new state at
\* dispatch, which it can only do while no update is pending on the component
dispatchCombo(r, combo, eager, inWindow) ==
  IF r.queue = <<>> /\ eager
  THEN IF inWindow
       THEN LET rr == ComboUpdater(r, combo)
            IN  [rr.r EXCEPT !.queue = Append(@, Upd("combo", rr.combo))]
       ELSE IF combo = 1 THEN r ELSE [r EXCEPT !.queue = Append(@, Upd("combo", 1))]
  ELSE [r EXCEPT !.queue = Append(@, Upd(IF inWindow THEN "comboFn" ELSE "combo", 1))]

\* a bomb hit that also restarts the combo window
bombHit_touchesTimer(r, i, burst) ==
  LET r1 == createExplosion(r, TRUE, burst)
  IN  [r1 EXCEPT !.shake = BOMB_SHAKE * SHAKE_UNIT,
                 !.lives = 0,
                 !.stats.bombsHit = @ + 1,
                 !.sinceCombo = 0,
                 !.entities[i].isSliced = TRUE,
                 !.entities[i].flash = OPACITY_UNIT]

\* a bomb hit that is not counted
bombHit_uncounted(r, i, burst) ==
  LET r1 == createExplosion(r, TRUE, burst)
  IN  [r1 EXCEPT !.shake = BOMB_SHAKE * SHAKE_UNIT,
                 !.lives = 0,
                 !.entities[i].isSliced = TRUE,
                 !.entities[i].flash = OPACITY_UNIT]

bombHit(r, i, burst) ==
  LET r1 == createExplosion(r, TRUE, burst)
  IN  [r1 EXCEPT !.shake = BOMB_SHAKE * SHAKE_UNIT,
                 !.lives = 0,
                 !.stats.bombsHit = @ + 1,
                 !.entities[i].isSliced = TRUE,
                 !.entities[i].flash = OPACITY_UNIT]

\* a fruit hit that is scored in the stats only
fruitHit_statsOnly(r, combo, eager, burst) ==
  LET r1 == createExplosion(r, FALSE, burst)
      r2 == [r1 EXCEPT !.stats.score = @ + FRUIT_SCORE,
                       !.stats.fruitsSliced = @ + 1]
      r3 == spawnFloatingText(r2, "+10")
      r4 == dispatchCombo(r3, combo, eager, Ms3(r3.sinceCombo) < 3 * COMBO_WINDOW)
  IN  [r4 EXCEPT !.sinceCombo = 0]

fruitHit(r, combo, eager, burst) ==
  LET r1 == createExplosion(r, FALSE, burst)
      r2 == [r1 EXCEPT !.score = @ + FRUIT_SCORE,
                       !.stats.score = @ + FRUIT_SCORE,
                       !.stats.fruitsSliced = @ + 1]
      r3 == spawnFloatingText(r2, "+10")
      r4 == dispatchCombo(r3, combo, eager, Ms3(r3.sinceCombo) < 3 * COMBO_WINDOW)
  IN  [r4 EXCEPT !.sinceCombo = 0]

RECURSIVE scanEntities(_, _, _, _, _, _, _)
\* the scan without the isSliced skip
scanEntities_retestsSliced(a, i, p1, p2, combo, eager, burst) ==
  IF i > Len(a.r.entities) THEN a
  ELSE LET e == a.r.entities[i]
           dx == p2.x - p1.x
           dy == p2.y - p1.y
           dist == Isqrt(dx * dx + dy * dy)
       IN  IF ~SegmentHit(p1, p2, e)
           THEN scanEntities(a, i + 1, p1, p2, combo, eager, burst)
           ELSE IF e.type = BOMB_TYPE
           THEN scanEntities([a EXCEPT !.r = bombHit(a.r, i, burst)],
                             i + 1, p1, p2, combo, eager, burst)
           ELSE scanEntities(
                  [r |-> fruitHit(a.r, combo, eager, burst),
                   toAdd |-> a.toAdd \o <<createFragment(e, 1, dx, dy, dist),
                                          createFragment(e, -1, dx, dy, dist)>>,
                   toRemove |-> a.toRemove \cup {e.id},
                   scoreChanged |-> TRUE],
                  i + 1, p1, p2, combo, eager, burst)

\* the forEach over entitiesRef.current; a = [r, toAdd, toRemove, scoreChanged]
scanEntities(a, i, p1, p2, combo, eager, burst) ==
  IF i > Len(a.r.entities) THEN a
  ELSE LET e == a.r.entities[i]
           dx == p2.x - p1.x
           dy == p2.y - p1.y
           dist == Isqrt(dx * dx + dy * dy)
       IN  IF e.isSliced \/ ~SegmentHit(p1, p2, e)
           THEN scanEntities(a, i + 1, p1, p2, combo, eager, burst)
           ELSE IF e.type = BOMB_TYPE
           THEN scanEntities([a EXCEPT !.r = bombHit(a.r, i, burst)],
                             i + 1, p1, p2, combo, eager, burst)
           ELSE scanEntities(
                  [r |-> fruitHit(a.r, combo, eager, burst),
                   toAdd |-> a.toAdd \o <<createFragment(e, 1, dx, dy, dist),
                                          createFragment(e, -1, dx, dy, dist)>>,
                   toRemove |-> a.toRemove \cup {e.id},
                   scoreChanged |-> TRUE],
                  i + 1, p1, p2, combo, eager, burst)

checkCollisions(r, combo, eager, burst) ==
  IF Len(r.trail) < 2 THEN r
  ELSE LET p1 == r.trail[Len(r.trail) - 1]
           p2 == r.trail[Len(r.trail)]
           dx == p2.x - p1.x
           dy == p2.y - p1.y
       IN  IF dx * dx + dy * dy < (MIN_SLICE_DIST * PX) * (MIN_SLICE_DIST * PX) THEN r
           ELSE LET a == scanEntities([r |-> r, toAdd |-> <<>>, toRemove |-> {},
                                       scoreChanged |-> FALSE],
                                      1, p1, p2, combo, eager, burst)
                    r1 == IF a.toRemove # {}
                          THEN [a.r EXCEPT !.entities =
                                  SelectSeq(@, LAMBDA x : x.id \notin a.toRemove) \o a.toAdd]
                          ELSE a.r
                IN  IF a.scoreChanged
                    THEN [r1 EXCEPT !.queue =
                            Append(@, Upd("hudStats",
                                          [score |-> r1.score,
                                           fruits |-> r1.stats.fruitsSliced,
                                           maxCombo |-> r1.stats.maxCombo]))]
                    ELSE r1

\* ---------------------------------------------------------------- update
RECURSIVE Decay(_, _)
\* shake * Math.pow(0.9, k)
Decay(shake, k) == IF k = 0 THEN shake ELSE Decay((shake * 9) \div 10, k - 1)

\* the decay without the snap to 0
stepShake_noSnap(shake, ts) == IF shake > 0 THEN Decay(shake, ts) ELSE shake

stepShake(shake, ts) ==
  IF shake > 0
  THEN LET d == Decay(shake, ts) IN IF d < SHAKE_SNAP THEN 0 ELSE d
  ELSE shake

stepEntity(e, gravity, ts) ==
  LET fade == IF e.isSliced THEN (IF e.isFragment THEN 3 ELSE 2) * ts ELSE 0
      grow == IF e.isSliced /\ ~e.isFragment THEN ts ELSE 0
  IN  [e EXCEPT !.x = @ + e.vx * ts,
                !.y = @ + e.vy * ts,
                !.vy = @ + gravity * ts,
                !.opacity = @ - fade,
                !.scale = @ + grow,
                !.flash = IF @ > 0 THEN @ - 10 * ts ELSE @]

\* the filter without the opacity test
stepEntities_keepsFaded(entities, gravity, ts, height) ==
  SelectSeq([i \in 1..Len(entities) |-> stepEntity(entities[i], gravity, ts)],
            LAMBDA e : e.y < (height + REMOVE_MARGIN) * PX)

stepEntities(entities, gravity, ts, height) ==
  SelectSeq([i \in 1..Len(entities) |-> stepEntity(entities[i], gravity, ts)],
            LAMBDA e : e.opacity > 0 /\ e.y < (height + REMOVE_MARGIN) * PX)

\* droplets stuck on the lens drift but never lose life
stepParticles_stuckForever(particles, ts) ==
  {q \in {[p EXCEPT !.life = IF p.stuck THEN @ ELSE @ - p.decay * ts] : p \in particles} :
     q.life > 0}

stepParticles(particles, ts) ==
  {q \in {[p EXCEPT !.life = @ - p.decay * ts] : p \in particles} : q.life > 0}

stepTexts(texts, ts) ==
  {q \in {[t EXCEPT !.life = @ - 20 * ts] : t \in texts} : q.life > 0}

\* returns before anything else once no life is left
update_haltsOnDeath(r, gs, ts, width, height, c) ==
  IF r.lives <= 0 THEN r
  ELSE LET r2 == [r EXCEPT !.shake = stepShake(@, ts)]
           difficulty == Difficulty(r2.score)
           timer == r2.spawnTimer + Ms3(ts)
           r3 == IF timer > 3 * difficulty.spawnRate
                 THEN [spawnEntity(r2, width, height, c) EXCEPT !.spawnTimer = 0]
                 ELSE [r2 EXCEPT !.spawnTimer = timer]
       IN  [r3 EXCEPT !.entities = stepEntities(@, difficulty.gravity, ts, height),
                      !.particles = stepParticles(@, ts),
                      !.texts = stepTexts(@, ts),
                      !.trail = SelectSeq(@, LAMBDA p : Ms3(p.age) < 3 * SLICE_LIFETIME)]

update_noShakeGate(r, gs, ts, width, height, c) ==
  LET r1 == IF r.lives <= 0 /\ gs = "PLAYING" THEN endGame(r) ELSE r
      r2 == [r1 EXCEPT !.shake = stepShake(@, ts)]
      difficulty == Difficulty(r2.score)
      timer == r2.spawnTimer + Ms3(ts)
      r3 == IF timer > 3 * difficulty.spawnRate
            THEN [spawnEntity(r2, width, height, c) EXCEPT !.spawnTimer = 0]
            ELSE [r2 EXCEPT !.spawnTimer = timer]
  IN  [r3 EXCEPT !.entities = stepEntities(@, difficulty.gravity, ts, height),
                 !.particles = stepParticles(@, ts),
                 !.texts = stepTexts(@, ts),
                 !.trail = SelectSeq(@, LAMBDA p : Ms3(p.age) < 3 * SLICE_LIFETIME)]

\* spawns as soon as the interval is reached
update_spawnsAtInterval(r, gs, ts, width, height, c) ==
  LET r1 == IF r.lives <= 0 /\ gs = "PLAYING" /\ r.shake < SHAKE_END * SHAKE_UNIT
            THEN endGame(r) ELSE r
      r2 == [r1 EXCEPT !.shake = stepShake(@, ts)]
      difficulty == Difficulty(r2.score)
      timer == r2.spawnTimer + Ms3(ts)
      r3 == IF timer >= 3 * difficulty.spawnRate
            THEN [spawnEntity(r2, width, height, c) EXCEPT !.spawnTimer = 0]
            ELSE [r2 EXCEPT !.spawnTimer = timer]
  IN  [r3 EXCEPT !.entities = stepEntities(@, difficulty.gravity, ts, height),
                 !.particles = stepParticles(@, ts),
                 !.texts = stepTexts(@, ts),
                 !.trail = SelectSeq(@, LAMBDA p : Ms3(p.age) < 3 * SLICE_LIFETIME)]

update(r, gs, ts, width, height, c) ==
  LET r1 == IF r.lives <= 0 /\ gs = "PLAYING" /\ r.shake < SHAKE_END * SHAKE_UNIT
            THEN endGame(r) ELSE r
      r2 == [r1 EXCEPT !.shake = stepShake(@, ts)]
      difficulty == Difficulty(r2.score)
      timer == r2.spawnTimer + Ms3(ts)
      r3 == IF timer > 3 * difficulty.spawnRate
            THEN [spawnEntity(r2, width, height, c) EXCEPT !.spawnTimer = 0]
            ELSE [r2 EXCEPT !.spawnTimer = timer]
  IN  [r3 EXCEPT !.entities = stepEntities(@, difficulty.gravity, ts, height),
                 !.particles = stepParticles(@, ts),
                 !.texts = stepTexts(@, ts),
                 !.trail = SelectSeq(@, LAMBDA p : Ms3(p.age) < 3 * SLICE_LIFETIME)]

\* ---------------------------------------------------------------- renderFrame
\* wall time advances by el before the frame runs
advanceClock(r, el) ==
  [r EXCEPT !.sinceCombo = Age(@, el, AgeSat),
            !.trail = [i \in 1..Len(r.trail) |->
                         [r.trail[i] EXCEPT !.age = Age(@, el, TrailAgeSat)]]]

\* the combo value once the pending updates are rendered
RECURSIVE ComboAfter(_, _)
ComboAfter(q, combo) ==
  IF q = <<>> THEN combo
  ELSE ComboAfter(Tail(q), IF Head(q).k = "combo" THEN Head(q).v
                           ELSE IF Head(q).k = "comboFn" THEN combo + 1 ELSE combo)

PointYs == {p.y : p \in Points}
NearPointer(e) ==
  /\ ~e.isSliced
  /\ \E lo \in PointYs, hi \in PointYs, y \in {e.y, e.y + e.vy * DT_CLAMP} :
       y >= lo - HandReach * PX /\ y <= hi + HandReach * PX

\* bounds on the pointer input only: the frame itself always runs
HandMayAppear ==
  /\ Len(trailRef) < MaxTrail
  /\ gameState = "PLAYING" =>
       /\ statsRef.fruitsSliced < MaxFruits
       /\ statsRef.bombsHit < MaxBombs
       /\ ComboAfter(pendingUpdates, currentCombo) < MaxCombo
       /\ \E i \in 1..Len(entitiesRef) : NearPointer(entitiesRef[i])

\* the pointer position has no effect outside PLAYING: one position stands for all
IdlePoints == {CHOOSE p \in Points : TRUE}

Hands ==
  {NoPos} \cup (IF HandMayAppear
                THEN RawInputs(lastHandPosRef,
                               IF gameState = "PLAYING" THEN Points ELSE IdlePoints)
                ELSE {})

\* the browser may run the requested frame: the last one has returned, and React is
\* not further behind than MaxLag frames
FrameDue ==
  /\ pc = "idle"
  /\ requestRef > 0
  /\ pendingUpdates # <<>> => framesPending < MaxLag

\* renderFrame up to and including detectHand
RenderFrame ==
  /\ FrameDue
  /\ framesPending' = IF pendingUpdates = <<>> THEN 0 ELSE framesPending + 1
  /\ \E el \in Elapsed, hand \in Hands :
       LET r0 == advanceClock(Refs, el)
           r == IF gameState = "LOADING" THEN r0
                ELSE detectHand(r0, handLandmarkerRef /\ videoStarted, hand)
       IN  /\ Store(r)
           /\ pc' = IF gameState = "PLAYING" THEN "collide"
                    ELSE IF gameState \in {"MENU", "GAMEOVER"}
                            /\ (r.particles # {} \/ r.texts # {})
                    THEN "update" ELSE "idle"
           /\ dt' = IF pc' = "idle" THEN 0 ELSE Min(el, DT_CLAMP)
  /\ UNCHANGED <<pendingUpdates, camera, handLandmarkerRef, requestRef, stream, feedback, audio>>
  /\ UNCHANGED_ui

\* some unsliced entity is within reach of the swipe segment of this frame
PassHits(r) ==
  /\ Len(r.trail) >= 2
  /\ \E i \in 1..Len(r.entities) :
       /\ ~r.entities[i].isSliced
       /\ SegmentHit(r.trail[Len(r.trail) - 1], r.trail[Len(r.trail)], r.entities[i])

\* the draws of createExplosion that a pass may see
BurstChoices ==
  {b \in Bursts : StuckParticle \in b.juice => statsRef.fruitsSliced < MaxStuck}

CheckCollisions ==
  /\ pc = "collide"
  /\ \E eager \in (IF PassHits(Refs) THEN BOOLEAN ELSE {FALSE}),
        burst \in (IF PassHits(Refs) THEN BurstChoices
                   ELSE {CHOOSE b \in BurstChoices : TRUE}) :
       LET r == checkCollisions(Refs, currentCombo, eager, burst)
       IN  /\ Store(r)
           /\ pendingUpdates' = r.queue
  /\ pc' = "update"
  /\ UNCHANGED <<dt, camera, handLandmarkerRef, framesPending, requestRef, stream, feedback, audio>>
  /\ UNCHANGED_ui

SpawnDue(r, ts) == r.spawnTimer + Ms3(ts) > 3 * Difficulty(r.score).spawnRate

\* update(dt, width, height), then draw and the next requestAnimationFrame
Update ==
  /\ pc = "update"
  /\ \E c \in (IF SpawnDue(Refs, dt) THEN SpawnChoices(Difficulty(scoreRef))
               ELSE {CHOOSE c \in SpawnChoices(Difficulty(scoreRef)) : TRUE}) :
       LET r == update(Refs, gameState, dt, Width, Height, c)
       IN  /\ Store(r)
           /\ pendingUpdates' = r.queue
  /\ pc' = "idle"
  /\ dt' = 0
  /\ UNCHANGED <<camera, handLandmarkerRef, framesPending, requestRef, stream, feedback, audio>>
  /\ UNCHANGED_ui

Next ==
  \/ GetUserMediaFail
  \/ GetUserMediaOk
  \/ LoadedData
  \/ InitializeVisionOk
  \/ InitializeVisionFail
  \/ RetryAccess
  \/ Render
  \/ StartGame
  \/ RenderFrame
  \/ CheckCollisions
  \/ Update

Spec == Init /\ [][Next]_vars

\* ---------------------------------------------------------------- fair scheduling
\* The steps of the frame loop and of React's rendering, told by the variables
\* that position them. Under Next a PlayingFrame step is a RenderFrame step taken
\* in PLAYING, a CollidePhase step is a CheckCollisions step, an UpdatePhase step is
\* an Update step and a RenderPhase step is a Render (or a click's synchronous
\* render); each is enabled exactly when that action is.
PlayingFrame == FrameDue /\ gameState = "PLAYING" /\ pc' = "collide"
CollidePhase == pc = "collide" /\ pc' = "update"
UpdatePhase == pc = "update" /\ pc' = "idle"
RenderPhase == pc = "idle" /\ pendingUpdates # <<>> /\ pendingUpdates' = <<>>

\* requestAnimationFrame: every scheduled frame runs, and a started callback runs to
\* its end; React renders what was dispatched
SpecLive ==
  /\ Init /\ [][Next]_vars
  /\ WF_pc(PlayingFrame)
  /\ WF_pc(CollidePhase)
  /\ WF_pc(UpdatePhase)
  /\ WF_pendingUpdates(RenderPhase)

TypeOK ==
  /\ gameState \in {"LOADING", "MENU", "PLAYING", "GAMEOVER"}
  /\ livesRef \in {0, 1}
  /\ gameState \in {"MENU", "GAMEOVER"} => pendingUpdates = <<>>

\* ---------------------------------------------------------------- session lifecycle
SessionEdges ==
  {<<"LOADING", "MENU">>, <<"MENU", "PLAYING">>, <<"PLAYING", "GAMEOVER">>,
   <<"GAMEOVER", "PLAYING">>}

\* C1: the session state changes only along LOADING->MENU, MENU->PLAYING,
\* PLAYING->GAMEOVER and GAMEOVER->PLAYING, whatever camera/vision events, clicks
\* and frames occur
C1_SessionEdges ==
  [][gameState' # gameState => <<gameState, gameState'>> \in SessionEdges]_vars

\* a second session is running: the combo value of an earlier session is still
\* there while nothing was sliced yet, so all four edges were taken
C1_Witness ==
  /\ gameState = "PLAYING"
  /\ currentCombo > 0
  /\ statsRef.fruitsSliced = 0

\* C2: right after startGame (start or retry) entities, particles, floating texts
\* and trail are empty, score / fruitsSliced / bombsHit / maxCombo are 0, the shake
\* is 0 and lives is 1
C2_StartGameResets ==
  [][StartGame =>
       /\ entitiesRef' = <<>>
       /\ particlesRef' = {}
       /\ floatingTextsRef' = {}
       /\ trailRef' = <<>>
       /\ scoreRef' = 0
       /\ statsRef'.score = 0
       /\ statsRef'.fruitsSliced = 0
       /\ statsRef'.bombsHit = 0
       /\ statsRef'.maxCombo = 0
       /\ shakeIntensityRef' = 0
       /\ livesRef' = 1]_vars

\* a retry has just reset the session: nothing is sliced yet although a fruit was
\* sliced less than the combo window ago
C2_Witness ==
  /\ gameState = "PLAYING"
  /\ pc = "idle"
  /\ sinceComboTimer < AgeSat
  /\ statsRef = ZeroStats
  /\ entitiesRef = <<>>
  /\ livesRef = 1

\* C10: right after startGame the current combo value is 0, whatever it was at the
\* end of the session before
C10_ComboReset == [][StartGame => currentCombo' = 0]_vars

\* ---------------------------------------------------------------- end of round
\* update() called endGame(): the three updates of endGame were dispatched
EndGameDispatched == pc = "update" /\ Len(pendingUpdates') > Len(pendingUpdates)

\* C3 as stated: endGame fires only in a tick where lives is 0 and the shake is
\* below the snap threshold 0.5
C3_Original ==
  [][EndGameDispatched => livesRef = 0 /\ shakeIntensityRef < SHAKE_SNAP]_vars

\* C3: endGame fires only in a tick of PLAYING where lives is 0 and the shake is
\* below 1 (it may still be at or above the snap threshold 0.5); GAMEOVER is never
\* committed while lives > 0
C3_EndGameGate ==
  [][/\ EndGameDispatched =>
          /\ gameState = "PLAYING"
          /\ livesRef = 0
          /\ shakeIntensityRef < SHAKE_END * SHAKE_UNIT
     /\ (gameState # "GAMEOVER" /\ gameState' = "GAMEOVER") => livesRef = 0]_vars

\* endGame was called and is waiting to be rendered
C3_Witness ==
  /\ gameState = "PLAYING"
  /\ livesRef = 0
  /\ pc = "idle"
  /\ \E i \in 1..Len(pendingUpdates) :
       pendingUpdates[i].k = "gameState" /\ pendingUpdates[i].v = "GAMEOVER"

\* C4: once lives is 0 in PLAYING the session eventually reaches GAMEOVER, whatever
\* samples, spawns and hits occur meanwhile, if frames keep running
C4_BombEndsRound == (livesRef = 0 /\ gameState = "PLAYING") ~> (gameState = "GAMEOVER")

\* a round ended by a bomb in which a fruit was sliced as well
C4_Witness ==
  /\ gameState = "GAMEOVER"
  /\ statsRef.bombsHit >= 1
  /\ statsRef.fruitsSliced >= 1

\* C5: in a frame taken outside PLAYING no collision pass runs and no entity is
\* spawned or advanced, and in LOADING nothing changes at all
C5_IdleSimulation ==
  [][(gameState # "PLAYING" /\ (RenderFrame \/ CheckCollisions \/ Update)) =>
       /\ pc' # "collide"
       /\ entitiesRef' = entitiesRef
       /\ gameState = "LOADING" =>
            UNCHANGED <<scoreRef, livesRef, spawnTimerRef, particlesRef,
                        floatingTextsRef, trailRef, lastHandPosRef, shakeIntensityRef,
                        statsRef>>]_vars

\* ---------------------------------------------------------------- detector pass
IdsOf(entities) == {entities[i].id : i \in 1..Len(entities)}

\* the entities of the pass that are no longer in the entity array after it
Removed == {i \in 1..Len(entitiesRef) : entitiesRef[i].id \notin IdsOf(entitiesRef')}

Suffix(side) == IF side = 1 THEN "-A" ELSE "-B"

\* what React's state and the refs are once everything dispatched is rendered
Settled == ApplyUpdates(pendingUpdates, Ui, [Refs EXCEPT !.queue = <<>>])

\* now - lastHitTime < 400 ms, at the time of the pass
InComboWindow == Ms3(sinceComboTimer) < 3 * COMBO_WINDOW

SqLess(a, b, r) == Abs(a) < r /\ Abs(b) < r /\ a * a + b * b < r * r

\* the distance from c to the closest point of the segment p1-p2 (projection
\* parameter clamped to [0, 1]) is strictly below rad
ClampedDistLess(p1, p2, c, rad) ==
  LET dx == p2.x - p1.x
      dy == p2.y - p1.y
      l2 == dx * dx + dy * dy
      wx == c.x - p1.x
      wy == c.y - p1.y
      dot == wx * dx + wy * dy
      cross == Abs(wx * dy - wy * dx)
  IN  IF dot <= 0 THEN SqLess(wx, wy, rad)
      ELSE IF dot >= l2 THEN SqLess(c.x - p2.x, c.y - p2.y, rad)
      ELSE BigLess(BigMul(cross, cross), BigMul(rad * rad, l2))

\* the trail / segment guard of the pass
PassGuard ==
  /\ Len(trailRef) >= 2
  /\ LET p1 == trailRef[Len(trailRef) - 1]
         p2 == trailRef[Len(trailRef)]
     IN  (p2.x - p1.x) * (p2.x - p1.x) + (p2.y - p1.y) * (p2.y - p1.y)
           >= (MIN_SLICE_DIST * PX) * (MIN_SLICE_DIST * PX)

\* entity i of the pass was unsliced before it and is cut (fruit: replaced by its
\* halves; bomb: marked sliced) after it
WasHit(i) ==
  LET e == entitiesRef[i]
  IN  /\ ~e.isSliced
      /\ \/ e.id \notin IdsOf(entitiesRef')
         \/ \E j \in 1..Len(entitiesRef') :
              entitiesRef'[j].id = e.id /\ entitiesRef'[j].isSliced

\* C7: in a pass an entity is hit iff the trail holds two points or more, the last
\* segment is at least 5 long, the entity is not sliced and its centre is strictly
\* nearer than its radius to the closest point of the segment; when the guard fails
\* the pass changes no state
C7_HitTest ==
  [][pc = "collide" =>
       /\ \A i \in 1..Len(entitiesRef) :
            WasHit(i) <=>
              /\ PassGuard
              /\ ~entitiesRef[i].isSliced
              /\ ClampedDistLess(trailRef[Len(trailRef) - 1], trailRef[Len(trailRef)],
                                 entitiesRef[i], entitiesRef[i].radius)
       /\ ~PassGuard =>
            /\ UNCHANGED_refs /\ UNCHANGED_ui
            /\ UNCHANGED <<pendingUpdates, camera, handLandmarkerRef, framesPending, dt,
                            requestRef, stream, feedback, audio>>]_vars

\* a pass has just run whose segment ends exactly one radius short of the centre
\* of an unsliced entity, which it left unsliced
C7_Witness ==
  /\ pc = "update"
  /\ PassGuard
  /\ \E i \in 1..Len(entitiesRef), n \in {0, 1} :
       LET e == entitiesRef[i]
           p == trailRef[Len(trailRef) - n]
           q == trailRef[Len(trailRef) - 1 + n]
       IN  /\ ~e.isSliced
           /\ e.x = p.x /\ p.x = q.x
           /\ Abs(e.y - p.y) = e.radius
           /\ (e.y - p.y) * (p.y - q.y) > 0

\* a pass with exactly one fruit hit
OneFruitHit == pc = "collide" /\ statsRef'.fruitsSliced = statsRef.fruitsSliced + 1

\* C8: on a fruit hit within 400 ms of the last one the combo becomes its previous
\* value + 1, maxCombo the maximum of itself and the combo, and the score gains
\* 10 plus, for a combo above 1, 5 x combo; with a gap of 400 ms or more the combo
\* becomes 1 and the score gains 10; lastHitTime becomes now in both cases
C8_ComboSystem ==
  [][OneFruitHit =>
       LET prev == Settled.u.currentCombo
           combo == IF InComboWindow THEN prev + 1 ELSE 1
           bonus == IF InComboWindow /\ combo > 1 THEN COMBO_BONUS * combo ELSE 0
       IN  /\ Settled'.u.currentCombo = combo
           /\ InComboWindow =>
                Settled'.r.stats.maxCombo = Max(Settled.r.stats.maxCombo, combo)
           /\ Settled'.r.score = Settled.r.score + FRUIT_SCORE + bonus
           /\ Settled'.r.stats.score = Settled.r.stats.score + FRUIT_SCORE + bonus
           /\ sinceComboTimer' = 0]_vars

\* the second hit of a chain has just happened: combo 2, 10 + 10 + bonus 10
C8_Witness ==
  /\ pc = "update"
  /\ sinceComboTimer = 0
  /\ statsRef.fruitsSliced = 2
  /\ statsRef.maxCombo = 2
  /\ scoreRef = 3 * FRUIT_SCORE

\* C9: the first fruit hit of a session yields combo 1 and a score of exactly 10
C9_FirstHit ==
  [][(OneFruitHit /\ statsRef.fruitsSliced = 0) =>
       /\ Settled'.u.currentCombo = 1
       /\ Settled'.r.score = FRUIT_SCORE]_vars

\* ---------------------------------------------------------------- bomb hit
\* the bombs the pass hits
BombsHitInPass ==
  {i \in 1..Len(entitiesRef) : entitiesRef[i].type = BOMB_TYPE /\ WasHit(i)}

\* C11: a pass that hits a bomb sets lives to 0 and adds exactly 1 to bombsHit per
\* bomb; the bomb stays in the entity array, sliced, with flash 1 and without
\* fragments; when no fruit is hit in the same pass the shake is 45 and the combo
\* value, the last-fruit-hit time, the score, fruitsSliced and maxCombo are untouched
C11_BombHit ==
  [][(pc = "collide" /\ BombsHitInPass # {}) =>
       /\ livesRef' = 0
       /\ statsRef'.bombsHit = statsRef.bombsHit + Cardinality(BombsHitInPass)
       /\ \A i \in BombsHitInPass :
            LET e == entitiesRef[i]
                kept == {j \in 1..Len(entitiesRef') : entitiesRef'[j].id = e.id}
            IN  /\ Cardinality(kept) = 1
                /\ \A j \in kept :
                     /\ entitiesRef'[j] = [e EXCEPT !.isSliced = TRUE, !.flash = OPACITY_UNIT]
                     /\ ~entitiesRef'[j].isFragment
                /\ \A side \in {1, -1} : Append(e.id, Suffix(side)) \notin IdsOf(entitiesRef')
       /\ statsRef'.fruitsSliced = statsRef.fruitsSliced =>
            /\ shakeIntensityRef' = BOMB_SHAKE * SHAKE_UNIT
            /\ Len(entitiesRef') = Len(entitiesRef)
            /\ pendingUpdates' = pendingUpdates
            /\ currentCombo' = currentCombo
            /\ sinceComboTimer' = sinceComboTimer
            /\ scoreRef' = scoreRef
            /\ statsRef' = [statsRef EXCEPT !.bombsHit = @ + Cardinality(BombsHitInPass)]]_vars

\* a pass has just hit a bomb less than 400 ms after a fruit was sliced
C11_Witness ==
  /\ pc = "update"
  /\ livesRef = 0
  /\ shakeIntensityRef = BOMB_SHAKE * SHAKE_UNIT
  /\ statsRef.bombsHit = 1
  /\ statsRef.fruitsSliced >= 1
  /\ sinceComboTimer > 0 /\ sinceComboTimer < AgeSat
  /\ \E i \in 1..Len(entitiesRef) :
       entitiesRef[i].type = BOMB_TYPE /\ entitiesRef[i].flash = OPACITY_UNIT

\* ---------------------------------------------------------------- ticks near the hard tier
\* A session well under way, taken at the moment a frame's detector pass is about to
\* run: the score is at or shortly below the threshold of the hard tier, one fruit
\* (spawned two frames ago) is crossed by the swipe of this frame, and the last
\* fruit was sliced either three frames ago or long ago.
FlyingFruit ==
  LET c == CHOOSE c \in SpawnChoices(INITIAL_DIFFICULTY) : c.type \in FRUIT_TYPES
      e == spawnEntity([entities |-> <<>>], Width, Height, c).entities[1]
      g == INITIAL_DIFFICULTY.gravity
  IN  stepEntity(stepEntity(e, g, DT_CLAMP), g, DT_CLAMP)

SwipeFrom == CHOOSE p \in Points : \A q \in Points : q.y <= p.y
SwipeTo == CHOOSE p \in Points : \A q \in Points : q.y >= p.y

TickStarts ==
  [score : {HARD_SCORE - 2 * FRUIT_SCORE, HARD_SCORE - FRUIT_SCORE, HARD_SCORE},
   since : {3 * DT_CLAMP, AgeSat}]

InitTick ==
  \E s \in TickStarts :
    LET stats == [score |-> s.score, fruitsSliced |-> s.score \div FRUIT_SCORE,
                  bombsHit |-> 0, maxCombo |-> 1]
        resting == IF s.since < TrailAgeSat + DT_CLAMP
                   THEN <<[x |-> SwipeFrom.x, y |-> SwipeFrom.y, age |-> TrailAgeSat]>>
                   ELSE <<>>
    IN  /\ gameState = "PLAYING"
        /\ currentCombo = 1
        /\ finalStats = NoStats
        /\ gameOverQuote = ""
        /\ hudStats = [score |-> stats.score, fruits |-> stats.fruitsSliced, maxCombo |-> 1]
        /\ cameraError = FALSE
        /\ videoStarted = TRUE
        /\ pendingUpdates = <<>>
        /\ camera = "ready"
        /\ handLandmarkerRef = TRUE
        /\ scoreRef = stats.score
        /\ livesRef = 1
        /\ spawnTimerRef = Ms3(DT_CLAMP)
        /\ entitiesRef = <<FlyingFruit>>
        /\ particlesRef = {}
        /\ floatingTextsRef = {}
        /\ trailRef = resting \o <<[x |-> SwipeFrom.x, y |-> SwipeFrom.y, age |-> DT_CLAMP],
                                   [x |-> SwipeTo.x, y |-> SwipeTo.y, age |-> 0]>>
        /\ lastHandPosRef = [x |-> SwipeTo.x, y |-> SwipeTo.y]
        /\ shakeIntensityRef = 0
        /\ statsRef = stats
        /\ sinceComboTimer = s.since
        /\ framesPending = 0
        /\ pc = "collide"
        /\ dt = DT_CLAMP
        /\ requestRef = 1
        /\ stream = "live"
        /\ feedback = NoFeedback
        /\ audio = NoAudio

NextTick ==
  \/ Render
  \/ RenderFrame
  \/ CheckCollisions
  \/ Update

SpecTick == InitTick /\ [][NextTick]_vars

\* the entities a tick adds
Spawned == {j \in 1..Len(entitiesRef') : entitiesRef'[j].id \notin IdsOf(entitiesRef)}

\* C12: the tier a tick uses for the spawn decision, for the speed of the entity it
\* spawns and for gravity is HARD iff the score at that tick is above 250, else
\* INITIAL (250 gives INITIAL, 251 HARD), whatever tier earlier ticks used
C12_DifficultyTier ==
  [][pc = "update" =>
       LET tier == IF scoreRef > HARD_SCORE THEN HARD_DIFFICULTY ELSE INITIAL_DIFFICULTY
           start == (Height + SPAWN_OFFSET) * PX
       IN  /\ Difficulty(HARD_SCORE) = INITIAL_DIFFICULTY
           /\ Difficulty(HARD_SCORE + 1) = HARD_DIFFICULTY
           /\ Spawned # {} <=> spawnTimerRef + Ms3(dt) > 3 * tier.spawnRate
           /\ Cardinality(Spawned) <= 1
           /\ \A j \in Spawned :
                \E speed \in tier.minSpeed..tier.maxSpeed :
                  LET vy == -((speed * Height) \div BASELINE_HEIGHT)
                  IN  /\ entitiesRef'[j].y = start + vy * dt
                      /\ entitiesRef'[j].vy = vy + tier.gravity * dt
           /\ \A i \in 1..Len(entitiesRef), j \in 1..Len(entitiesRef') :
                entitiesRef'[j].id = entitiesRef[i].id =>
                  entitiesRef'[j].vy = entitiesRef[i].vy + tier.gravity * dt]_vars

\* the score went from 250 to 260 when React ran the combo updater, and the tick
\* after that has spawned an entity
C12_Witness ==
  /\ pc = "idle"
  /\ gameState = "PLAYING"
  /\ hudStats.score = HARD_SCORE
  /\ scoreRef = HARD_SCORE + 2 * COMBO_BONUS
  /\ spawnTimerRef = 0
  /\ entitiesRef # <<>>

\* ---------------------------------------------------------------- stats snapshot
\* C13: when GAMEOVER is entered the snapshot equals the live stats; from then to the
\* next start neither changes; the live stats are written only by the detector pass
\* or the combo updater of a PLAYING session, or by the reset of startGame
C13_StatsSnapshot ==
  [][/\ (gameState = "PLAYING" /\ gameState' = "GAMEOVER") => finalStats' = statsRef'
     /\ (gameState = "GAMEOVER" /\ gameState' = "GAMEOVER") =>
          finalStats' = finalStats /\ statsRef' = statsRef
     /\ statsRef' # statsRef =>
          \/ gameState = "PLAYING" /\ pc = "collide"
          \/ gameState = "PLAYING" /\ pc = "idle" /\ pendingUpdates # <<>>
          \/ gameState \in {"MENU", "GAMEOVER"} /\ gameState' = "PLAYING"]_vars

\* ---------------------------------------------------------------- stepper
\* C14: in every tick of update each particle that is still there afterwards has
\* strictly less life than before (stuck or free), and afterwards no particle and no
\* floating text with life <= 0 is left
C14_LifeDecreases ==
  [][pc = "update" =>
       /\ \A q \in particlesRef' :
            \E p \in particlesRef :
              /\ [p EXCEPT !.life = q.life] = q
              /\ q.life < p.life
       /\ \A q \in particlesRef' : q.life > 0
       /\ \A t \in floatingTextsRef' : t.life > 0
       /\ \A t \in floatingTextsRef' :
            \E u \in floatingTextsRef : u.text = t.text /\ t.life < u.life]_vars

\* a tick has just run that removed the spent core particle of an explosion and
\* kept a stuck droplet, a free particle and a floating text, all with less life
C14_Witness ==
  /\ pc = "idle"
  /\ \A p \in particlesRef : p.type # "CORE"
  /\ \E p \in particlesRef : p.stuck /\ p.life < 2 * LIFE_UNIT
  /\ \E p \in particlesRef : ~p.stuck /\ p.life < LIFE_UNIT
  /\ \E t \in floatingTextsRef : t.life < LIFE_UNIT

\* ---------------------------------------------------------------- trail
\* C15: at the end of every tick taken in MENU, PLAYING or GAMEOVER every trail
\* point is younger than the 250 ms lifetime window
C15_TrailWindow ==
  [][((RenderFrame \/ Update) /\ pc' = "idle"
        /\ gameState \in {"MENU", "PLAYING", "GAMEOVER"}) =>
       \A i \in 1..Len(trailRef') : Ms3(trailRef'[i].age) < 3 * SLICE_LIFETIME]_vars

\* ---------------------------------------------------------------- pointer step
\* C16: the pointer step of a tick either leaves the trail as it is, and then clears
\* the cached last position iff the trail is empty (no hand), or appends exactly one
\* point stamped with the current time, which becomes the cached last position
\* (hand); the points already in the trail are kept as they are
C16_PointerStep ==
  [][RenderFrame =>
       \E el \in Elapsed :
         LET old == advanceClock(Refs, el).trail
             n == Len(old)
         IN  \/ /\ trailRef' = old
                /\ lastHandPosRef' = IF trailRef = <<>> THEN NoPos ELSE lastHandPosRef
             \/ /\ gameState # "LOADING" /\ handLandmarkerRef /\ videoStarted
                /\ Len(trailRef') = n + 1
                /\ SubSeq(trailRef', 1, n) = old
                /\ trailRef'[n + 1].age = 0
                /\ lastHandPosRef' = [x |-> trailRef'[n + 1].x, y |-> trailRef'[n + 1].y]]_vars

\* the last tick saw no hand while the trail still held a point: the cached
\* position is kept
C16_Witness ==
  /\ pc = "idle"
  /\ trailRef # <<>>
  /\ trailRef[Len(trailRef)].age > 0
  /\ lastHandPosRef # NoPos

\* ---------------------------------------------------------------- collaborator failures
\* handLandmarker.detectForVideo (or AudioService.playSlice) throws inside detectHand,
\* before detectHand has written anything: nothing in renderFrame catches it, so the
\* callback ends there, before checkCollisions, update, draw and
\* requestAnimationFrame
DetectHandThrows ==
  /\ FrameDue
  /\ gameState # "LOADING"
  /\ handLandmarkerRef /\ videoStarted
  /\ \E el \in Elapsed : Store(advanceClock(Refs, el))
  /\ framesPending' = IF pendingUpdates = <<>> THEN 0 ELSE framesPending + 1
  /\ requestRef' = requestRef - 1
  /\ UNCHANGED <<pc, dt, pendingUpdates, camera, handLandmarkerRef, stream, feedback, audio>>
  /\ UNCHANGED_ui

\* AudioService.playBomb / playSplat throws at the first entity the pass hits (the
\* first statement of either branch): the pass has written nothing yet, and the
\* callback ends there, before update, draw and requestAnimationFrame
AudioThrows ==
  /\ pc = "collide"
  /\ PassHits(Refs)
  /\ pc' = "idle"
  /\ dt' = 0
  /\ requestRef' = requestRef - 1
  /\ UNCHANGED <<pendingUpdates, camera, handLandmarkerRef, framesPending, stream, feedback, audio>>
  /\ UNCHANGED_refs /\ UNCHANGED_ui

NextFaults ==
  \/ Next
  \/ DetectHandThrows
  \/ AudioThrows

SpecFaults == Init /\ [][NextFaults]_vars

\* C17: when a collaborator call made inside a tick throws, the tick goes on with
\* its remaining steps and the next tick is still requested
C17_FaultContained ==
  [][(DetectHandThrows \/ AudioThrows) =>
       /\ requestRef' = 1
       /\ gameState = "PLAYING" => pc' = (IF pc = "idle" THEN "collide" ELSE "update")]_vars

\* ---------------------------------------------------------------- teardown
\* The component unmounts: the cleanup of the camera effect stops the tracks of the
\* stream it holds, if any, and both cleanups cancel the requested frame. The
\* instance is gone afterwards; its state and refs are shown as their initial values.
\* A getUserMedia call that is still pending stays pending.
Unmount ==
  /\ pc = "idle"
  /\ camera \notin {"orphaned", "unmounted"}
  /\ camera' = IF camera = "acquiring" THEN "orphaned" ELSE "unmounted"
  /\ stream' = IF stream = "live" THEN "stopped" ELSE stream
  /\ requestRef' = cancelFrame(requestRef)
  /\ Commit([gameState |-> "LOADING", currentCombo |-> 0, finalStats |-> NoStats,
             gameOverQuote |-> "", hudStats |-> ZeroHud, cameraError |-> FALSE,
             videoStarted |-> FALSE])
  /\ Store([score |-> 0, lives |-> 1, spawnTimer |-> 0, entities |-> <<>>,
            particles |-> {}, texts |-> {}, trail |-> <<>>, lastHandPos |-> NoPos,
            shake |-> 0, stats |-> ZeroStats, sinceCombo |-> AgeSat])
  /\ pendingUpdates' = <<>>
  /\ handLandmarkerRef' = FALSE
  /\ framesPending' = 0
  /\ UNCHANGED <<pc, dt, feedback, audio>>

\* the pending getUserMedia resolves after the cleanup has run: the stream is
\* assigned to the effect's local variable; videoRef.current is null by now, so it
\* is not attached, and no cleanup is left to stop it
OrphanAcquired ==
  /\ camera = "orphaned"
  /\ camera' = "unmounted"
  /\ stream' = "live"
  /\ UNCHANGED <<pc, dt, pendingUpdates, handLandmarkerRef, framesPending, requestRef,
                 feedback, audio>>
  /\ UNCHANGED_refs /\ UNCHANGED_ui

\* the pending getUserMedia attempts are rejected after the cleanup has run: the
\* state updates of the catch block go to an unmounted component
OrphanRejected ==
  /\ camera = "orphaned"
  /\ camera' = "unmounted"
  /\ UNCHANGED <<pc, dt, pendingUpdates, handLandmarkerRef, framesPending, requestRef,
                 stream, feedback, audio>>
  /\ UNCHANGED_refs /\ UNCHANGED_ui

NextTeardown ==
  \/ Next
  \/ Unmount
  \/ OrphanAcquired
  \/ OrphanRejected

SpecTeardown == Init /\ [][NextTeardown]_vars

\* C20: once the camera effect has been cleaned up (unmount or retry) no stream it
\* obtained is live, also when getUserMedia completes only after the cleanup
C20_NoLiveStream ==
  /\ camera \in {"orphaned", "unmounted"} => stream # "live"
  /\ (camera = "acquiring" /\ cameraError = FALSE) => stream # "live"

\* ---------------------------------------------------------------- generateSenseiFeedback
SILENT_FALLBACK == "The Dojo is silent (API Key missing)."
FOCUS_FALLBACK == "Focus your mind, and the fruit will reveal its path."
STUMBLE_FALLBACK == "Even masters stumble. Try again."

\* response.text as the collaborator may deliver it: empty (or undefined), or a text
ResponseTexts == {"", "Your blade sings. Mind the pineapple."}

\* the stats a caller may pass
FeedbackInputs ==
  {st \in [score : {0, FRUIT_SCORE, 3 * FRUIT_SCORE, HARD_SCORE + FRUIT_SCORE},
           fruitsSliced : {0, 1, 2, 26}, bombsHit : {0, 1}, maxCombo : {0, 1, 2}] :
     /\ st.fruitsSliced * FRUIT_SCORE <= st.score
     /\ st.fruitsSliced = 0 <=> st.score = 0
     /\ st.maxCombo <= st.fruitsSliced
     /\ st.maxCombo = 0 <=> st.fruitsSliced = 0}

\* response.text, returned without the fallback
feedbackText_raw(text) == text

\* response.text || fallback
feedbackText(text) == IF text = "" THEN FOCUS_FALLBACK ELSE text

\* the call, up to its first await: initGenAI, then the request to the model
FeedbackInvoke ==
  /\ feedback.pc = "called"
  /\ feedback' = IF ~feedback.key
                 THEN [feedback EXCEPT !.pc = "done", !.result = SILENT_FALLBACK]
                 ELSE [feedback EXCEPT !.pc = "awaiting", !.contacted = TRUE]
  /\ UNCHANGED <<pc, dt, pendingUpdates, camera, handLandmarkerRef, framesPending,
                 requestRef, stream, audio>>
  /\ UNCHANGED_refs /\ UNCHANGED_ui

\* generateContent resolved
FeedbackResponds(text) ==
  /\ feedback.pc = "awaiting"
  /\ feedback' = [feedback EXCEPT !.pc = "done", !.result = feedbackText(text)]
  /\ UNCHANGED <<pc, dt, pendingUpdates, camera, handLandmarkerRef, framesPending,
                 requestRef, stream, audio>>
  /\ UNCHANGED_refs /\ UNCHANGED_ui

\* generateContent threw or rejected: the catch block
FeedbackFails ==
  /\ feedback.pc = "awaiting"
  /\ feedback' = [feedback EXCEPT !.pc = "done", !.result = STUMBLE_FALLBACK]
  /\ UNCHANGED <<pc, dt, pendingUpdates, camera, handLandmarkerRef, framesPending,
                 requestRef, stream, audio>>
  /\ UNCHANGED_refs /\ UNCHANGED_ui

\* a call of generateSenseiFeedback(stats), with or without process.env.API_KEY
InitFeedback ==
  /\ InitCanvas
  /\ audio = NoAudio
  /\ \E key \in BOOLEAN, st \in FeedbackInputs :
       feedback = [key |-> key, stats |-> st, pc |-> "called", result |-> "",
                   contacted |-> FALSE]

NextFeedback ==
  \/ FeedbackInvoke
  \/ \E text \in ResponseTexts : FeedbackResponds(text)
  \/ FeedbackFails

SpecFeedback == InitFeedback /\ [][NextFeedback]_vars

\* the function runs once called; nothing is assumed of the collaborator
SpecFeedbackLive == InitFeedback /\ [][NextFeedback]_vars /\ WF_feedback(FeedbackInvoke)

\* C18: the call never ends in a rejection: without an API key it returns the fixed
\* fallback without contacting the collaborator; when the collaborator call fails
\* it returns a fixed fallback; when the response text is empty it returns a fixed
\* fallback; every returned string is non-empty
C18_FeedbackFallbacks ==
  [][feedback' # feedback =>
       /\ feedback'.pc \in {"awaiting", "done"}
       /\ feedback'.pc = "done" => feedback'.result # ""
       /\ ~feedback.key =>
            /\ feedback'.pc = "done"
            /\ feedback'.result = SILENT_FALLBACK
            /\ ~feedback'.contacted
       /\ FeedbackFails => feedback'.pc = "done" /\ feedback'.result = STUMBLE_FALLBACK
       /\ FeedbackResponds("") => feedback'.pc = "done" /\ feedback'.result = FOCUS_FALLBACK
       /\ \A text \in ResponseTexts \ {""} :
            (FeedbackResponds(text) /\ ~FeedbackFails) => feedback'.result = text]_vars

\* the collaborator answered with an empty text and the call returned its fallback
C18_Witness ==
  /\ feedback.pc = "done"
  /\ feedback.contacted
  /\ feedback.result = FOCUS_FALLBACK

\* C19: every call eventually completes, also when the collaborator never responds
C19_FeedbackCompletes == (feedback.pc = "called") ~> (feedback.pc = "done")

\* ---------------------------------------------------------------- stat writes
\* the HUD update the pass dispatched last
PublishedHud == pendingUpdates'[Len(pendingUpdates')].v

\* C21: every write to the score and to maxCombo that a fruit hit causes, the combo
\* bonus included, is made inside the detector pass of the tick: the HUD update the
\* pass dispatches carries the final score and maxCombo, and rendering writes
\* neither the score nor the stats
C21_StatWritesInPass ==
  [][/\ OneFruitHit =>
          /\ pendingUpdates'[Len(pendingUpdates')].k = "hudStats"
          /\ PublishedHud.score = Settled'.r.score
          /\ PublishedHud.maxCombo = Settled'.r.stats.maxCombo
     /\ Render => scoreRef' = scoreRef /\ statsRef' = statsRef]_vars

\* ---------------------------------------------------------------- single hit
\* the unsliced fruits the pass removes
FruitsHitInPass ==
  {i \in 1..Len(entitiesRef) : entitiesRef[i].type \in FRUIT_TYPES /\ WasHit(i)}

\* C22: no entity is hit twice. A pass counts one fruit per unsliced fruit it removes
\* and one bomb per unsliced bomb it marks; it leaves every entity that was already
\* sliced (fragments included) exactly as it was; a hit fruit is gone after the pass;
\* no step turns a sliced entity back into an unsliced one, every fragment is sliced,
\* and no two entities carry the same id
C22_SingleHit ==
  [][/\ pc = "collide" =>
          /\ statsRef'.fruitsSliced = statsRef.fruitsSliced + Cardinality(FruitsHitInPass)
          /\ statsRef'.bombsHit = statsRef.bombsHit + Cardinality(BombsHitInPass)
          /\ \A i \in FruitsHitInPass : entitiesRef[i].id \notin IdsOf(entitiesRef')
          /\ \A i \in 1..Len(entitiesRef) :
               entitiesRef[i].isSliced =>
                 \E j \in 1..Len(entitiesRef') : entitiesRef'[j] = entitiesRef[i]
     /\ \A i \in 1..Len(entitiesRef), j \in 1..Len(entitiesRef') :
          (entitiesRef'[j].id = entitiesRef[i].id /\ entitiesRef[i].isSliced)
            => entitiesRef'[j].isSliced
     /\ \A j \in 1..Len(entitiesRef') :
          entitiesRef'[j].isFragment => entitiesRef'[j].isSliced
     /\ Cardinality(IdsOf(entitiesRef')) = Len(entitiesRef')]_vars

\* a pass has just run whose segment crosses a bomb that an earlier pass had hit,
\* and has left it alone
C22_Witness ==
  /\ pc = "update"
  /\ PassGuard
  /\ statsRef.bombsHit = 1
  /\ \E i \in 1..Len(entitiesRef) :
       LET e == entitiesRef[i]
       IN  /\ e.type = BOMB_TYPE /\ e.isSliced /\ e.flash < OPACITY_UNIT
           /\ SegmentHit(trailRef[Len(trailRef) - 1], trailRef[Len(trailRef)], e)

\* ---------------------------------------------------------------- swipe segment
\* detectHand appended no point in this tick: the newest trail point, if any, was
\* stamped in an earlier tick
NoSampleThisTick == trailRef = <<>> \/ trailRef[Len(trailRef)].age > 0

\* C23: a pass of a tick in which no new pointer sample arrived hits no entity and
\* writes neither the score nor the stats
C23_SegmentOnce ==
  [][(pc = "collide" /\ NoSampleThisTick) =>
       /\ \A i \in 1..Len(entitiesRef) : ~WasHit(i)
       /\ scoreRef' = scoreRef
       /\ statsRef' = statsRef
       /\ livesRef' = livesRef]_vars

\* ---------------------------------------------------------------- a swipe across three entities
\* The first session after mount, followed tick by tick from startGame with the
\* functions of the program: three spawns (a fruit, a bomb, a fruit, 100 px apart,
\* vx = 0) are in the air when the hand comes into view and swipes across them, one
\* entity per tick. React renders after every tick.
SwipeSpawns ==
  <<[type |-> CHOOSE f \in FRUIT_TYPES : TRUE, x |-> 860 * PX, targetX |-> 860 * PX,
     flightTime |-> 200, speed |-> 1650],
    [type |-> BOMB_TYPE, x |-> 960 * PX, targetX |-> 960 * PX,
     flightTime |-> 200, speed |-> INITIAL_DIFFICULTY.minSpeed],
    [type |-> CHOOSE f \in FRUIT_TYPES : TRUE, x |-> 1060 * PX, targetX |-> 1060 * PX,
     flightTime |-> 200, speed |-> 1650]>>

\* ticks without a hand before the first sample, and the tick of the last sample
SwipeQuiet == 46
SwipeLast == SwipeQuiet + 4

\* the entity the finger is on in tick t (none while no hand is in view), and how
\* far left of it the first sample lies
SwipeTarget(t) ==
  IF t <= SwipeQuiet THEN <<>>
  ELSE IF t <= SwipeQuiet + 2 THEN <<1>>
  ELSE IF t = SwipeQuiet + 3 THEN <<2>> ELSE <<3>>
SwipeLead(t) == IF t = SwipeQuiet + 1 THEN 100 * PX ELSE 0

\* the raw finger position that the smoothing of detectHand turns into the point
\* SwipeLead(t) left of the centre of the target
SwipeHand(r, t) ==
  IF SwipeTarget(t) = <<>> THEN NoPos
  ELSE LET e == CHOOSE e \in {r.entities[i] : i \in 1..Len(r.entities)} :
                  e.id = SwipeTarget(t)
           aim == [x |-> e.x - SwipeLead(t), y |-> e.y]
       IN  IF r.lastHandPos = NoPos THEN aim
           ELSE [x |-> 2 * aim.x - r.lastHandPos.x, y |-> 2 * aim.y - r.lastHandPos.y]

SwipeBurst == CHOOSE b \in Bursts : StuckParticle \notin b.juice

\* renderFrame of tick t up to and including detectHand; s = [r |-> refs, u |-> state]
SwipeSample(s, t) ==
  LET r0 == advanceClock(s.r, DT_CLAMP)
  IN  [s EXCEPT !.r = detectHand(r0, TRUE, SwipeHand(r0, t))]

\* the rest of tick t, and React's render after it
SwipeFinish(s) ==
  LET r2 == checkCollisions(s.r, s.u.currentCombo, TRUE, SwipeBurst)
      c == SwipeSpawns[Min(Cardinality(BaseIds(r2.entities)) + 1, Len(SwipeSpawns))]
      r3 == update(r2, s.u.gameState, DT_CLAMP, Width, Height, c)
      res == ApplyUpdates(r3.queue, s.u, [r3 EXCEPT !.queue = <<>>])
  IN  [r |-> res.r, u |-> res.u]

\* the component right after startGame in the first session
SwipeStart ==
  [r |-> [score |-> 0, lives |-> 1, spawnTimer |-> 0, entities |-> <<>>,
          particles |-> {}, texts |-> {}, trail |-> <<>>, lastHandPos |-> NoPos,
          shake |-> 0, stats |-> ZeroStats, sinceCombo |-> AgeSat, queue |-> <<>>],
   u |-> [gameState |-> "PLAYING", currentCombo |-> 0, finalStats |-> NoStats,
          gameOverQuote |-> "", hudStats |-> ZeroHud, cameraError |-> FALSE,
          videoStarted |-> TRUE]]

\* the component when the detector pass of tick `last` is about to run, s being the
\* component before tick t; the ticks stop with the session
RECURSIVE SwipeAt(_, _, _)
SwipeAt(s, t, last) ==
  CHOOSE out \in {IF x.u.gameState # "PLAYING" \/ t = last THEN SwipeSample(x, t)
                  ELSE SwipeAt(SwipeFinish(SwipeSample(x, t)), t + 1, last) : x \in {s}} :
    TRUE

\* the pass about to run has the second fruit under the segment, or (one tick
\* earlier) the bomb
InitSwipe ==
  \E last \in {SwipeLast - 1, SwipeLast} :
    \E s \in {SwipeAt(SwipeStart, 1, last)} :
        /\ gameState = s.u.gameState
        /\ currentCombo = s.u.currentCombo
        /\ finalStats = s.u.finalStats
        /\ gameOverQuote = s.u.gameOverQuote
        /\ hudStats = s.u.hudStats
        /\ cameraError = s.u.cameraError
        /\ videoStarted = s.u.videoStarted
        /\ pendingUpdates = s.r.queue
        /\ camera = "ready"
        /\ handLandmarkerRef = TRUE
        /\ scoreRef = s.r.score
        /\ livesRef = s.r.lives
        /\ spawnTimerRef = s.r.spawnTimer
        /\ entitiesRef = s.r.entities
        /\ particlesRef = s.r.particles
        /\ floatingTextsRef = s.r.texts
        /\ trailRef = s.r.trail
        /\ lastHandPosRef = s.r.lastHandPos
        /\ shakeIntensityRef = s.r.shake
        /\ statsRef = s.r.stats
        /\ sinceComboTimer = s.r.sinceCombo
        /\ framesPending = 0
        /\ pc = "collide"
        /\ dt = DT_CLAMP
        /\ requestRef = 1
        /\ stream = "live"
        /\ feedback = NoFeedback
        /\ audio = NoAudio

SpecSwipe == InitSwipe /\ [][NextTick]_vars

\* ---------------------------------------------------------------- screen shake
\* the step awards a combo bonus: the score grows by more than 10 per fruit hit
BonusAwarded ==
  scoreRef' - scoreRef > FRUIT_SCORE * (statsRef'.fruitsSliced - statsRef.fruitsSliced)

\* C24: a step that awards a combo bonus does not lower the shake, and raises it to
\* at most 15; a bomb's shake that is still decaying is kept
C24_ComboShakeRaises ==
  [][BonusAwarded =>
       /\ shakeIntensityRef' >= shakeIntensityRef
       /\ shakeIntensityRef' <= Max(shakeIntensityRef, COMBO_SHAKE_CAP * SHAKE_UNIT)]_vars

\* C25: after every tick of update the shake is exactly 0 or at least 0.5; it is
\* never above 45 (nor below 0); and a tick without a hit does not raise it: the
\* pointer step leaves it alone, so does a pass that hits nothing, and update only
\* lowers it
C25_ShakeRange ==
  [][/\ shakeIntensityRef' >= 0
     /\ shakeIntensityRef' <= BOMB_SHAKE * SHAKE_UNIT
     /\ pc = "update" =>
          /\ shakeIntensityRef' = 0 \/ shakeIntensityRef' >= SHAKE_SNAP
          /\ shakeIntensityRef' <= shakeIntensityRef
          /\ shakeIntensityRef > 0 => shakeIntensityRef' < shakeIntensityRef
     /\ RenderFrame => shakeIntensityRef' = shakeIntensityRef
     /\ (pc = "collide" /\ \A i \in 1..Len(entitiesRef) : ~WasHit(i)) =>
          shakeIntensityRef' = shakeIntensityRef]_vars

\* the shake of a bomb has decayed below 0.5 and was snapped to 0 by the tick that
\* has just run
C25_Witness ==
  /\ pc = "idle"
  /\ livesRef = 0
  /\ statsRef.bombsHit >= 1
  /\ shakeIntensityRef = 0

\* ---------------------------------------------------------------- entity lifecycle
\* C26: an unsliced entity has opacity 1; a sliced entity that a step keeps does not
\* gain opacity, and a tick of update takes 0.03 x timeScale from a fragment and
\* 0.02 x timeScale from a sliced non-fragment; after a tick of update no entity
\* with opacity <= 0 or with y >= height + 300 is left
C26_EntityLifecycle ==
  [][/\ \A j \in 1..Len(entitiesRef') :
          ~entitiesRef'[j].isSliced => entitiesRef'[j].opacity = OPACITY_UNIT
     /\ \A i \in 1..Len(entitiesRef), j \in 1..Len(entitiesRef') :
          (entitiesRef'[j].id = entitiesRef[i].id /\ entitiesRef[i].isSliced) =>
            /\ entitiesRef'[j].opacity <= entitiesRef[i].opacity
            /\ pc = "update" =>
                 entitiesRef'[j].opacity =
                   entitiesRef[i].opacity - (IF entitiesRef[i].isFragment THEN 3 ELSE 2) * dt
     /\ pc = "update" =>
          \A j \in 1..Len(entitiesRef') :
            /\ entitiesRef'[j].opacity > 0
            /\ entitiesRef'[j].y < (Height + REMOVE_MARGIN) * PX]_vars

\* the halves of a sliced fruit have faded and were removed while the session goes on
C26_Witness ==
  /\ pc = "idle"
  /\ gameState = "PLAYING"
  /\ statsRef.fruitsSliced >= 1
  /\ entitiesRef # <<>>
  /\ \A i \in 1..Len(entitiesRef) : ~entitiesRef[i].isFragment

\* C27: the flash of every entity is within [0, 1] in every reachable state
C27_FlashRange ==
  \A i \in 1..Len(entitiesRef) :
    entitiesRef[i].flash >= 0 /\ entitiesRef[i].flash <= OPACITY_UNIT

\* ---------------------------------------------------------------- spawn timer
\* the spawn interval of the tier the score selects, ms
SpawnInterval == IF scoreRef > HARD_SCORE THEN 900 ELSE 1400

\* C28: a tick of update spawns at most one entity, and spawns one exactly when the
\* accumulated time (the clamped dt of every tick since the last spawn, each at most
\* 100 ms) is strictly above the interval of the current tier (1400 ms INITIAL,
\* 900 ms HARD); the accumulator is then 0, else it keeps the sum; nothing else
\* writes the accumulator; a spawned entity is unsliced with opacity 1, scale 1 and
\* radius > 0
C28_SpawnTimer ==
  [][/\ pc = "update" =>
          LET acc == spawnTimerRef + Ms3(dt)
          IN  /\ Ms3(dt) <= 3 * 100
              /\ Cardinality(Spawned) <= 1
              /\ Spawned # {} <=> acc > 3 * SpawnInterval
              /\ spawnTimerRef' = IF acc > 3 * SpawnInterval THEN 0 ELSE acc
              /\ \A j \in Spawned :
                   /\ ~entitiesRef'[j].isSliced
                   /\ ~entitiesRef'[j].isFragment
                   /\ entitiesRef'[j].opacity = OPACITY_UNIT
                   /\ entitiesRef'[j].scale = OPACITY_UNIT
                   /\ entitiesRef'[j].radius > 0
     /\ pc # "update" => spawnTimerRef' = spawnTimerRef]_vars

\* a tick of the hard tier has just spawned an entity: it is rising, no farther
\* from the spawn line than one tick of flight, and the accumulator is back at 0
C28_Witness ==
  /\ pc = "idle"
  /\ scoreRef > HARD_SCORE
  /\ spawnTimerRef = 0
  /\ \E i \in 1..Len(entitiesRef) :
       /\ ~entitiesRef[i].isSliced
       /\ entitiesRef[i].y >=
            (Height + SPAWN_OFFSET) * PX - HARD_DIFFICULTY.maxSpeed * DT_CLAMP
       /\ entitiesRef[i].vy < 0
       /\ entitiesRef[i].opacity = OPACITY_UNIT

\* C29: startGame resets the spawn accumulator: the accumulated spawn time is 0 at
\* the start of every session
C29_SpawnTimerReset == [][StartGame => spawnTimerRef' = 0]_vars

\* ---------------------------------------------------------------- lives
LivesMatchBombs ==
  /\ livesRef \in {0, 1}
  /\ livesRef = 0 <=> statsRef.bombsHit >= 1

\* C30: lives is 0 or 1; lives is 0 exactly when a bomb was hit in the session; and
\* lives goes from 0 back to 1 only by startGame (start / try again)
C30_Lives ==
  [][/\ LivesMatchBombs
     /\ LivesMatchBombs'
     /\ (livesRef = 0 /\ livesRef' = 1) => StartGame]_vars

\* a round ended by a bomb: lives is 0 and the snapshot shown counts the bomb
C30_Witness ==
  /\ pc = "idle"
  /\ gameState = "GAMEOVER"
  /\ livesRef = 0
  /\ statsRef.bombsHit >= 1
  /\ finalStats.bombsHit >= 1

\* ---------------------------------------------------------------- score
ScoresAgree ==
  /\ scoreRef = statsRef.score
  /\ scoreRef >= FRUIT_SCORE * statsRef.fruitsSliced

\* C31: scoreRef equals statsRef.score in every reachable state and is at least
\* 10 x fruitsSliced; within a session it never decreases (only startGame lowers it)
C31_Score ==
  [][/\ ScoresAgree
     /\ ScoresAgree'
     /\ scoreRef' < scoreRef => StartGame]_vars

\* a session in which a combo bonus was awarded: the score is above 10 per fruit
C31_Witness ==
  /\ pc = "idle"
  /\ gameState = "PLAYING"
  /\ scoreRef > FRUIT_SCORE * statsRef.fruitsSliced
  /\ statsRef.score = scoreRef

\* ---------------------------------------------------------------- max combo
\* C32: in every reachable state of a session maxCombo is at least the current
\* combo counter
C32_MaxCombo == gameState = "PLAYING" => statsRef.maxCombo >= currentCombo

Triggers == {"playSlice", "playSplat", "playCombo", "playBomb", "playStart"}

\* playSlice and playBomb play the noise buffer and return early without it
needsNoise(op) == op \in {"playSlice", "playBomb"}

\* nodes a trigger creates once past its early return: a source or oscillators, a
\* filter, a gain
nodesOf(op) ==
  CASE op = "playSlice" -> 3
    [] op = "playSplat" -> 3
    [] op = "playCombo" -> 2
    [] op = "playBomb" -> 3
    [] op = "playStart" -> 2

\* initAudio without the test of audioCtx: a context and a gain node at every call
initAudio_alwaysCreates(a, available) ==
  IF available
  THEN [a |-> [a EXCEPT !.audioCtx = TRUE, !.masterGain = TRUE,
                        !.contexts = a.contexts + 1],
        threw |-> FALSE]
  ELSE [a |-> a, threw |-> TRUE]

\* initAudio: the context and the master gain are created when there is no context
\* yet; where the browser has neither AudioContext nor webkitAudioContext the
\* constructor call throws and nothing is assigned. resume() changes nothing the
\* module keeps.
initAudio(a, available) ==
  IF ~a.audioCtx
  THEN IF available
       THEN [a |-> [a EXCEPT !.audioCtx = TRUE, !.masterGain = TRUE,
                             !.contexts = a.contexts + 1],
             threw |-> FALSE]
       ELSE [a |-> a, threw |-> TRUE]
  ELSE [a |-> a, threw |-> FALSE]

\* createNoiseBuffer: null without a context, else a new two-second buffer
createNoiseBuffer(a) ==
  IF ~a.audioCtx
  THEN [a |-> a, buffer |-> FALSE]
  ELSE [a |-> [a EXCEPT !.buffers = a.buffers + 1], buffer |-> TRUE]

\* AudioService.init: initAudio, then the noise buffer when there is a context and
\* no buffer yet
init(a, available) ==
  LET i == initAudio(a, available) IN
  IF i.threw THEN [i.a EXCEPT !.outcome = "threw"]
  ELSE IF i.a.audioCtx /\ ~i.a.noiseBuffer
       THEN LET b == createNoiseBuffer(i.a) IN
            [b.a EXCEPT !.noiseBuffer = b.buffer, !.outcome = "ok"]
       ELSE [i.a EXCEPT !.outcome = "ok"]

\* a trigger: the early return on a missing context, gain node or (for playSlice and
\* playBomb) noise buffer, else the sound's nodes are created and started
play(a, op) ==
  IF ~a.audioCtx \/ ~a.masterGain \/ (needsNoise(op) /\ ~a.noiseBuffer)
  THEN [a EXCEPT !.outcome = "silent"]
  ELSE [a EXCEPT !.nodes = a.nodes + nodesOf(op), !.outcome = "played"]

\* a call of AudioService.init()
AudioInit ==
  /\ audio.calls < MaxCalls
  /\ \E available \in BOOLEAN :
       audio' = [init(audio, available) EXCEPT !.op = "init", !.calls = audio.calls + 1,
                                               !.inits = audio.inits + 1]
  /\ UNCHANGED <<pc, dt, pendingUpdates, camera, handLandmarkerRef, framesPending,
                 requestRef, stream, feedback>>
  /\ UNCHANGED_refs /\ UNCHANGED_ui

\* a call of one of the triggers
AudioTrigger(op) ==
  /\ audio.calls < MaxCalls
  /\ audio' = [play(audio, op) EXCEPT !.op = op, !.calls = audio.calls + 1]
  /\ UNCHANGED <<pc, dt, pendingUpdates, camera, handLandmarkerRef, framesPending,
                 requestRef, stream, feedback>>
  /\ UNCHANGED_refs /\ UNCHANGED_ui

\* the module's calls in any order: GameCanvas calls init and playStart from
\* startGame, the other triggers from the frame
NextAudio ==
  \/ AudioInit
  \/ \E op \in Triggers : AudioTrigger(op)

SpecAudio == Init /\ [][NextAudio]_vars

\* what the module keeps and has created, without the record of the last call
AudioKept(a) == <<a.audioCtx, a.masterGain, a.noiseBuffer, a.contexts, a.buffers, a.nodes>>

\* C34: after any sequence of AudioService calls at most one audio context and one
\* noise buffer have been created (a further init creates nothing), the noise buffer
\* exists only if the context does, and a trigger called before init has created
\* them returns without creating anything and without throwing
C34_AudioOnce ==
  [][/\ audio'.contexts <= 1
     /\ audio'.buffers <= 1
     /\ audio'.contexts = (IF audio'.audioCtx THEN 1 ELSE 0)
     /\ audio'.buffers = (IF audio'.noiseBuffer THEN 1 ELSE 0)
     /\ audio'.noiseBuffer => audio'.audioCtx
     /\ (audio.audioCtx /\ audio.noiseBuffer /\ audio'.op = "init")
          => AudioKept(audio') = AudioKept(audio) /\ audio'.outcome = "ok"
     /\ (audio'.op \in Triggers /\ ~(audio.audioCtx /\ audio.noiseBuffer))
          => AudioKept(audio') = AudioKept(audio) /\ audio'.outcome = "silent"]_vars

\* init returned normally a second time or later, among calls of the triggers, with
\* one context and one buffer created
C34_Witness ==
  /\ audio.inits >= 2
  /\ audio.op = "init"
  /\ audio.outcome = "ok"
  /\ audio.contexts = 1
  /\ audio.buffers = 1
  /\ audio.calls > audio.inits

====
